---------------------------- MODULE Spec2Model ----------------------------
(***************************************************************************)
(* Carbon-Trading-Blockchain: the Ledger (CarbonCreditToken) and the       *)
(* escrow Marketplace (CarbonMarketplace) as one state machine.            *)
(*                                                                         *)
(* Every public function is one action.  A call that reverts leaves the    *)
(* contracts' storage as it was (a step that changes nothing).  buyCredits *)
(* is the one function that hands control to untrusted code in the middle  *)
(* of its body (the seller payment and the buyer refund): it is modelled   *)
(* as a frame whose position is `pc`, and while the frame is open the      *)
(* recipient of the payment may call any function (a nested call).  A      *)
(* revert of the frame restores the snapshot `saved` taken on entry, as    *)
(* the EVM does.                                                           *)
(***************************************************************************)
EXTENDS Integers, Sequences, FiniteSets, TLC

\* ---------------------------------------------------------------- bounds
MaxCalls  == 5     \* calls (and new blocks) in one explored history
MaxAmount == 2     \* largest amount argument (base units)
InitEth   == 450   \* external value each user starts with
PriceHigh == 401   \* the non-trivial listing price
UNIT      == 2     \* the ledger's unit scale (1e18 in the code), scaled down
MaxRegistryCalls == 7  \* calls in one explored history of the Registry

\* ------------------------------------------------------- program constants
InitialFee     == 25
MaxFeeBps      == 500
BpsDenominator == 10000

\* ---------------------------------------------------------------- principals
Owner == "owner"               \* deployer of both contracts
Users == {"owner", "alice"}
Mkt   == "marketplace"         \* address(this) of CarbonMarketplace
Zero  == "0x0"                 \* address(0)
Addr  == Users \cup {Mkt}

Minters == {Owner}

\* ---------------------------------------------------------------- inputs
ProjectNames     == {"", "Solar"}
MintAmounts      == {0, MaxAmount}
Prices           == {0, 1, PriceHigh}
FeeInputs        == {MaxFeeBps, MaxFeeBps + 1}
LedgerProjectNames == ProjectNames \cup {"Wind"}
ProjectTypes     == {"Renewable Energy"}
Locations        == {"India"}
ListingNames     == {"Solar"}
ListingCreditIds == {0}

VARIABLES
    \* CarbonCreditToken
    balances, allowance, creditMetadata, userRetiredCredits, projectCredits,
    nextCreditId, totalRetired, tokenEntered,
    \* CarbonMarketplace
    listings, userListings, userTrades, nextListingId, platformFee,
    totalVolume, totalTrades, mktEntered,
    \* environment
    ethBalance, now,
    \* call frame of buyCredits, snapshot for revert, how the last frame ended
    pc, frame, saved, outcome,
    \* history
    totalMinted, unsolicited, feesDue, mintLog, calls,
    \* CarbonCreditRegistry
    projects, issuers, issuerProjects, isRegisteredIssuer, nextProjectId,
    totalProjects, totalVerifiedProjects, roles,
    \* CarbonCreditNFT
    certificates, userCertificates, nextTokenId, tokenOwner, tokenURIs

ledgerVars == <<balances, allowance, creditMetadata, userRetiredCredits,
                projectCredits, nextCreditId, totalRetired, tokenEntered>>
mktVars    == <<listings, userListings, userTrades, nextListingId, platformFee,
                totalVolume, totalTrades, mktEntered>>
histVars   == <<totalMinted, unsolicited, feesDue, mintLog>>
regVars    == <<projects, issuers, issuerProjects, isRegisteredIssuer,
                nextProjectId, totalProjects, totalVerifiedProjects, roles>>
nftVars    == <<certificates, userCertificates, nextTokenId, tokenOwner,
                tokenURIs>>
frameVars  == <<pc, frame, saved, outcome>>
vars       == <<ledgerVars, mktVars, ethBalance, now, frameVars, histVars,
                calls, regVars, nftVars>>

\* ---------------------------------------------------------------- helpers
RECURSIVE SumOver(_, _)
SumOver(f, S) ==
    IF S = {} THEN 0
    ELSE LET x == CHOOSE y \in S : TRUE IN f[x] + SumOver(f, S \ {x})

ZeroListing == [seller |-> Zero, amount |-> 0, pricePerCredit |-> 0,
                isActive |-> FALSE, createdAt |-> 0, creditId |-> 0,
                projectName |-> ""]

\* listings[id] of a Solidity mapping: the zero struct where nothing was stored
ListingAt(id) == IF id \in DOMAIN listings THEN listings[id] ELSE ZeroListing

ZeroMetadata == [projectName |-> "", projectType |-> "", location |-> "",
                 vintage |-> 0, timestamp |-> 0,
                 isRetired |-> FALSE, retiredBy |-> Zero, retiredAt |-> 0]

MetadataAt(id) ==
    IF id \in DOMAIN creditMetadata THEN creditMetadata[id] ELSE ZeroMetadata

NoFrame == [listingId |-> 0, buyer |-> Zero, seller |-> Zero, amount |-> 0,
            value |-> 0, totalPrice |-> 0, fee |-> 0, sellerAmount |-> 0]

\* The storage of both contracts, the value balances and the history: what a
\* revert restores.
Snapshot ==
    [balances |-> balances, allowance |-> allowance,
     creditMetadata |-> creditMetadata,
     userRetiredCredits |-> userRetiredCredits,
     projectCredits |-> projectCredits, nextCreditId |-> nextCreditId,
     totalRetired |-> totalRetired, listings |-> listings,
     userListings |-> userListings, userTrades |-> userTrades,
     nextListingId |-> nextListingId, platformFee |-> platformFee,
     totalVolume |-> totalVolume, totalTrades |-> totalTrades,
     ethBalance |-> ethBalance, totalMinted |-> totalMinted,
     unsolicited |-> unsolicited, feesDue |-> feesDue, mintLog |-> mintLog,
     tokenEntered |-> tokenEntered, mktEntered |-> mktEntered]

\* `saved` while no frame is open.
NoSave == [none |-> TRUE]

\* The code that is running: the top-level caller when no frame is open,
\* otherwise the recipient of the value transfer in progress.
Recipient == IF pc = "paySeller" THEN frame.seller ELSE frame.buyer
CanCall(c) == calls < MaxCalls /\ (pc = "idle" \/ c = Recipient)

\* One more call has been made.
Counted == calls' = calls + 1

\* A call that reverts: nothing it wrote is kept.
Revert == UNCHANGED vars

\* ERC20 _update(from, to, value) on a balance map (from # to or not).
Move(bal, from, to, amount) ==
    LET debited == [bal EXCEPT ![from] = @ - amount]
    IN  [debited EXCEPT ![to] = @ + amount]

\* ------------------------------------------------------ CarbonCreditToken
\* ReentrancyGuard of the token: status left by the modifier when the body
\* has run to its end.
TokenGuardExit == FALSE

\* Mutant: the role check is missing.
MintOk_AnyCaller(caller, amount, projectName, vintage) ==
    /\ ~tokenEntered
    /\ amount > 0
    /\ projectName # ""
    /\ vintage <= now

\* onlyRole(MINTER_ROLE), nonReentrant and the three require of mintCredits.
MintOk(caller, amount, projectName, vintage) ==
    /\ caller \in Minters
    /\ ~tokenEntered
    /\ amount > 0
    /\ projectName # ""
    /\ vintage <= now

\* Mutant: the project type is stored as the location too.
NewMetadata_LocationLost(projectName, projectType, location, vintage) ==
    [projectName |-> projectName, projectType |-> projectType,
     location |-> projectType, vintage |-> vintage, timestamp |-> now,
     isRetired |-> FALSE, retiredBy |-> Zero, retiredAt |-> 0]

\* Lines 91-100: the record stored for a new credit id.
NewMetadata(projectName, projectType, location, vintage) ==
    [projectName |-> projectName, projectType |-> projectType,
     location |-> location, vintage |-> vintage, timestamp |-> now,
     isRetired |-> FALSE, retiredBy |-> Zero, retiredAt |-> 0]

\* Mutant: the aggregate is overwritten (= instead of +=).
AddProjectCredits_Overwrite(projectName, amount) ==
    [projectCredits EXCEPT ![projectName] = amount]

\* Line 102: projectCredits[projectName] += amount.
AddProjectCredits(projectName, amount) ==
    [projectCredits EXCEPT ![projectName] = @ + amount]

MintCredits(caller, to, amount, projectName, projectType, location, vintage) ==
    /\ CanCall(caller)
    /\ IF MintOk(caller, amount, projectName, vintage)
       THEN /\ Counted
            /\ nextCreditId' = nextCreditId + 1
            /\ creditMetadata' =
                 [i \in 0..nextCreditId |->
                    IF i = nextCreditId
                    THEN NewMetadata(projectName, projectType, location,
                                     vintage)
                    ELSE creditMetadata[i]]
            /\ projectCredits' = AddProjectCredits(projectName, amount)
            /\ balances' = [balances EXCEPT ![to] = @ + amount]
            /\ tokenEntered' = TokenGuardExit
            /\ totalMinted' = totalMinted + amount
            /\ unsolicited' = IF to = Mkt THEN unsolicited + amount
                              ELSE unsolicited
            /\ mintLog' = Append(mintLog,
                                 [amount |-> amount,
                                  projectName |-> projectName,
                                  projectType |-> projectType,
                                  location |-> location,
                                  vintage |-> vintage])
            /\ UNCHANGED <<allowance, userRetiredCredits, totalRetired,
                           mktVars, ethBalance, now, nftVars, regVars, frameVars,
                           feesDue>>
       ELSE Revert

\* Mutant: the "Credits already retired" check is missing.
RetireOk_NoRetiredCheck(caller, amount, creditId) ==
    /\ ~tokenEntered
    /\ balances[caller] >= amount
    /\ creditId < nextCreditId

\* Mutant: the "Insufficient balance" check is missing.
RetireOk_NoBalanceCheck(caller, amount, creditId) ==
    /\ ~tokenEntered
    /\ creditId < nextCreditId
    /\ ~MetadataAt(creditId).isRetired

\* The modifier and the three require of retireCredits.
RetireOk(caller, amount, creditId) ==
    /\ ~tokenEntered
    /\ balances[caller] >= amount
    /\ creditId < nextCreditId
    /\ ~MetadataAt(creditId).isRetired

\* Mutant: the retiring principal is not recorded.
MarkRetired_NoRetiredBy(meta, caller) ==
    [meta EXCEPT !.isRetired = TRUE, !.retiredAt = now]

\* Mutant: the deployer is recorded as the retiring principal.
MarkRetired_ByDeployer(meta, caller) ==
    [meta EXCEPT !.isRetired = TRUE, !.retiredBy = Owner, !.retiredAt = now]

\* Lines 121-123: the record of a credit once it is retired by `caller`.
MarkRetired(meta, caller) ==
    [meta EXCEPT !.isRetired = TRUE, !.retiredBy = caller, !.retiredAt = now]

RetireCredits(caller, amount, creditId) ==
    /\ CanCall(caller)
    /\ IF RetireOk(caller, amount, creditId)
       THEN /\ Counted
            /\ creditMetadata' =
                 [creditMetadata EXCEPT ![creditId] = MarkRetired(@, caller)]
            /\ userRetiredCredits' =
                 [userRetiredCredits EXCEPT ![caller] = Append(@, creditId)]
            /\ totalRetired' = totalRetired + amount
            /\ balances' = [balances EXCEPT ![caller] = @ - amount]
            /\ tokenEntered' = TokenGuardExit
            /\ UNCHANGED <<allowance, projectCredits, nextCreditId, mktVars,
                           ethBalance, now, nftVars, regVars, frameVars, histVars>>
       ELSE Revert

\* The view getCreditMetadata (lines 136-143): it fails or returns the record.
GetCreditMetadata(creditId) ==
    IF creditId < nextCreditId
    THEN [ok |-> TRUE, value |-> MetadataAt(creditId)]
    ELSE [ok |-> FALSE, value |-> ZeroMetadata]

\* The view getProjectCredits (lines 159-165).
GetProjectCredits(projectName) == projectCredits[projectName]

\* ERC20.transfer, inherited.
Transfer(caller, to, amount) ==
    /\ CanCall(caller)
    /\ IF balances[caller] >= amount
       THEN /\ Counted
            /\ balances' = Move(balances, caller, to, amount)
            /\ unsolicited' = IF to = Mkt THEN unsolicited + amount
                              ELSE unsolicited
            /\ UNCHANGED <<allowance, creditMetadata, userRetiredCredits,
                           projectCredits, nextCreditId, totalRetired,
                           tokenEntered, mktVars, ethBalance, now, nftVars, regVars,
                           frameVars, totalMinted, feesDue, mintLog>>
       ELSE Revert

\* ERC20.approve(marketplace, amount), inherited.
Approve(caller, amount) ==
    /\ CanCall(caller)
    /\ Counted
    /\ allowance' = [allowance EXCEPT ![caller] = amount]
    /\ UNCHANGED <<balances, creditMetadata, userRetiredCredits,
                   projectCredits, nextCreditId, totalRetired, tokenEntered,
                   mktVars, ethBalance, now, nftVars, regVars, frameVars, histVars>>

\* ERC20Burnable.burn, inherited: destroys balance, knows nothing of
\* totalRetired.
Burn(caller, amount) ==
    /\ CanCall(caller)
    /\ IF balances[caller] >= amount
       THEN /\ Counted
            /\ balances' = [balances EXCEPT ![caller] = @ - amount]
            /\ UNCHANGED <<allowance, creditMetadata, userRetiredCredits,
                           projectCredits, nextCreditId, totalRetired,
                           tokenEntered, mktVars, ethBalance, now, nftVars, regVars, frameVars,
                           histVars>>
       ELSE Revert

\* ------------------------------------------------------ CarbonMarketplace
\* Mutant: the guard's status is not reset when the body ends.
MktGuardExit_Stuck == TRUE

\* ReentrancyGuard of the marketplace: status left when a guarded body ends.
MktGuardExit == FALSE

\* Price math of buyCredits (integer division truncates).
TotalPriceOf(amount, price) == (amount * price) \div UNIT

\* Mutant: the fee is taken in per-mille instead of basis points.
FeeOf_PerMille(totalPrice, feeBps) == (totalPrice * feeBps) \div 1000

FeeOf(totalPrice, feeBps) == (totalPrice * feeBps) \div BpsDenominator

\* Mutant: the sold amount is not taken off the listing.
AfterSale_NoDecrement(listing, amount) ==
    [listing EXCEPT !.isActive = (listing.amount - amount # 0)]

\* Mutant: the sold amount is added to the listing instead of taken off it.
AfterSale_Adds(listing, amount) ==
    [listing EXCEPT !.amount = @ + amount]

\* Mutant: a listing sold out is not deactivated.
AfterSale_StaysActive(listing, amount) ==
    [listing EXCEPT !.amount = @ - amount]

\* Mutant: a listing sold out is deleted from the mapping.
AfterSale_Deleted(listing, amount) ==
    IF listing.amount - amount = 0
    THEN ZeroListing
    ELSE [listing EXCEPT !.amount = @ - amount]

\* Lines 145-148: the listing after `amount` of it is sold.
AfterSale(listing, amount) ==
    [listing EXCEPT !.amount = @ - amount,
                    !.isActive = (listing.amount - amount # 0)]

\* Mutant: the approval is not needed to move the caller's tokens.
CreateOk_NoApproval(caller, amount, pricePerCredit) ==
    /\ ~mktEntered
    /\ amount > 0
    /\ pricePerCredit > 0
    /\ balances[caller] >= amount

\* The modifier, the three require of createListing (lines 84-89) and the
\* allowance that transferFrom spends (line 93).
CreateOk(caller, amount, pricePerCredit) ==
    /\ ~mktEntered
    /\ amount > 0
    /\ pricePerCredit > 0
    /\ balances[caller] >= amount
    /\ allowance[caller] >= amount

CreateListing(caller, amount, pricePerCredit, creditId, projectName) ==
    /\ CanCall(caller)
    /\ IF CreateOk(caller, amount, pricePerCredit)
       THEN /\ Counted
            /\ balances' = Move(balances, caller, Mkt, amount)
            /\ allowance' = [allowance EXCEPT ![caller] = @ - amount]
            /\ nextListingId' = nextListingId + 1
            /\ listings' =
                 [i \in 0..nextListingId |->
                    IF i = nextListingId
                    THEN [seller |-> caller, amount |-> amount,
                          pricePerCredit |-> pricePerCredit,
                          isActive |-> TRUE, createdAt |-> now,
                          creditId |-> creditId, projectName |-> projectName]
                    ELSE listings[i]]
            /\ userListings' =
                 [userListings EXCEPT ![caller] = Append(@, nextListingId)]
            /\ mktEntered' = MktGuardExit
            /\ UNCHANGED <<creditMetadata, userRetiredCredits, projectCredits,
                           nextCreditId, totalRetired, tokenEntered,
                           userTrades, platformFee, totalVolume, totalTrades,
                           ethBalance, now, nftVars, regVars, frameVars, histVars>>
       ELSE Revert

\* What buyCredits computes at lines 138-140 for a call on the current state.
QuoteOf(listingId, amount) ==
    LET totalPrice == TotalPriceOf(amount, ListingAt(listingId).pricePerCredit)
        fee        == FeeOf(totalPrice, platformFee)
    IN  [totalPrice |-> totalPrice, fee |-> fee,
         sellerAmount |-> totalPrice - fee]

\* Mutant: the "Amount must be greater than 0" check is missing.
BuyOk_NoAmountCheck(caller, listingId, amount, value) ==
    /\ ~mktEntered
    /\ ListingAt(listingId).isActive
    /\ amount <= ListingAt(listingId).amount
    /\ caller # ListingAt(listingId).seller
    /\ QuoteOf(listingId, amount).fee <= QuoteOf(listingId, amount).totalPrice
    /\ value >= QuoteOf(listingId, amount).totalPrice
    /\ balances[Mkt] >= amount

\* Mutant: the payment must exceed the price.
BuyOk_PaymentStrict(caller, listingId, amount, value) ==
    /\ ~mktEntered
    /\ ListingAt(listingId).isActive
    /\ amount > 0
    /\ amount <= ListingAt(listingId).amount
    /\ caller # ListingAt(listingId).seller
    /\ QuoteOf(listingId, amount).fee <= QuoteOf(listingId, amount).totalPrice
    /\ value > QuoteOf(listingId, amount).totalPrice
    /\ balances[Mkt] >= amount

\* Mutant: the "Cannot buy own listing" check is missing.
BuyOk_NoSellerCheck(caller, listingId, amount, value) ==
    /\ ~mktEntered
    /\ ListingAt(listingId).isActive
    /\ amount > 0
    /\ amount <= ListingAt(listingId).amount
    /\ QuoteOf(listingId, amount).fee <= QuoteOf(listingId, amount).totalPrice
    /\ value >= QuoteOf(listingId, amount).totalPrice
    /\ balances[Mkt] >= amount

\* The modifier, the require of lines 132-135 and 142, the checked
\* subtraction of line 140 and the token transfer of line 152.
BuyOk(caller, listingId, amount, value) ==
    /\ ~mktEntered
    /\ ListingAt(listingId).isActive
    /\ amount > 0
    /\ amount <= ListingAt(listingId).amount
    /\ caller # ListingAt(listingId).seller
    /\ QuoteOf(listingId, amount).fee <= QuoteOf(listingId, amount).totalPrice
    /\ value >= QuoteOf(listingId, amount).totalPrice
    /\ balances[Mkt] >= amount

\* buyCredits up to and including the value transfer to the seller
\* (lines 130-157): the seller's code now runs.
BuyCredits(caller, listingId, amount, value) ==
    LET listing      == ListingAt(listingId)
        totalPrice   == QuoteOf(listingId, amount).totalPrice
        fee          == QuoteOf(listingId, amount).fee
        sellerAmount == QuoteOf(listingId, amount).sellerAmount
    IN
    /\ CanCall(caller)
    /\ ethBalance[caller] >= value
    /\ IF BuyOk(caller, listingId, amount, value)
       THEN /\ Counted
            /\ saved' = Snapshot
            /\ mktEntered' = TRUE
            /\ listings' = [listings EXCEPT ![listingId] = AfterSale(@, amount)]
            /\ balances' = Move(balances, Mkt, caller, amount)
            /\ ethBalance' =
                 Move(Move(ethBalance, caller, Mkt, value),
                      Mkt, listing.seller, sellerAmount)
            /\ frame' = [listingId |-> listingId, buyer |-> caller,
                         seller |-> listing.seller, amount |-> amount,
                         value |-> value, totalPrice |-> totalPrice,
                         fee |-> fee, sellerAmount |-> sellerAmount]
            /\ pc' = "paySeller"
            /\ outcome' = "pending"
            /\ feesDue' = feesDue + fee
            /\ UNCHANGED <<allowance, creditMetadata, userRetiredCredits,
                           projectCredits, nextCreditId, totalRetired,
                           tokenEntered, userListings, userTrades,
                           nextListingId, platformFee, totalVolume,
                           totalTrades, now, nftVars, regVars, totalMinted, unsolicited,
                           mintLog>>
       ELSE Revert

\* The frame reverts: every write since its entry is undone (nested calls
\* included) and the caller's value comes back.
Abort(why) ==
    /\ outcome' = why
    /\ balances' = saved.balances
    /\ allowance' = saved.allowance
    /\ creditMetadata' = saved.creditMetadata
    /\ userRetiredCredits' = saved.userRetiredCredits
    /\ projectCredits' = saved.projectCredits
    /\ nextCreditId' = saved.nextCreditId
    /\ totalRetired' = saved.totalRetired
    /\ tokenEntered' = saved.tokenEntered
    /\ listings' = saved.listings
    /\ userListings' = saved.userListings
    /\ userTrades' = saved.userTrades
    /\ nextListingId' = saved.nextListingId
    /\ platformFee' = saved.platformFee
    /\ totalVolume' = saved.totalVolume
    /\ totalTrades' = saved.totalTrades
    /\ mktEntered' = saved.mktEntered
    /\ ethBalance' = saved.ethBalance
    /\ totalMinted' = saved.totalMinted
    /\ unsolicited' = saved.unsolicited
    /\ feesDue' = saved.feesDue
    /\ mintLog' = saved.mintLog
    /\ pc' = "idle"
    /\ frame' = NoFrame
    /\ saved' = NoSave
    /\ UNCHANGED <<now, nftVars, regVars, calls>>

\* Mutant: the trade is pushed to the buyer's history only.
Recorded_BuyerOnly(trades, trade) ==
    [trades EXCEPT ![trade.buyer] = Append(@, trade)]

\* Lines 178-179: the trade is pushed to the buyer's history, then to the
\* seller's.
Recorded(trades, trade) ==
    LET forBuyer == [trades EXCEPT ![trade.buyer] = Append(@, trade)]
    IN  [forBuyer EXCEPT ![trade.seller] = Append(@, trade)]

\* Lines 168-191: the trade is recorded, the counters move, the guard opens.
Finish(how) ==
    LET trade == [listingId |-> frame.listingId, buyer |-> frame.buyer,
                  seller |-> ListingAt(frame.listingId).seller,
                  amount |-> frame.amount, totalPrice |-> frame.totalPrice,
                  timestamp |-> now]
    IN
    /\ userTrades' = Recorded(userTrades, trade)
    /\ totalVolume' = totalVolume + frame.totalPrice
    /\ totalTrades' = totalTrades + 1
    /\ mktEntered' = MktGuardExit
    /\ pc' = "idle"
    /\ frame' = NoFrame
    /\ saved' = NoSave
    /\ outcome' = how
    /\ UNCHANGED <<ledgerVars, listings, userListings, nextListingId,
                   platformFee, ethBalance, now, nftVars, regVars, histVars, calls>>

Complete == Finish("completed")

\* Mutant: the success of the refund is not checked, the sale goes on.
SellerReturns_RefundUnchecked ==
    LET refund == frame.value - frame.totalPrice IN
    /\ pc = "paySeller"
    /\ IF frame.value > frame.totalPrice /\ ethBalance[Mkt] >= refund
       THEN /\ ethBalance' = Move(ethBalance, Mkt, frame.buyer, refund)
            /\ pc' = "refundBuyer"
            /\ UNCHANGED <<ledgerVars, mktVars, now, nftVars, regVars, frame, saved,
                           outcome, histVars, calls>>
       ELSE Complete

\* The seller's code returns normally from the payment (line 158 passes);
\* lines 161-166 then refund the excess, which hands control to the buyer.
SellerReturns ==
    LET refund == frame.value - frame.totalPrice IN
    /\ pc = "paySeller"
    /\ IF frame.value > frame.totalPrice
       THEN IF ethBalance[Mkt] >= refund
            THEN /\ ethBalance' = Move(ethBalance, Mkt, frame.buyer, refund)
                 /\ pc' = "refundBuyer"
                 /\ UNCHANGED <<ledgerVars, mktVars, now, nftVars, regVars, frame, saved,
                                outcome, histVars, calls>>
            ELSE Abort("refundFailed")       \* the transfer cannot be made
       ELSE Complete

\* Mutant: the success of the seller payment is not checked, the sale is
\* recorded although the seller rejected.
SellerRejects_Unchecked ==
    /\ pc = "paySeller"
    /\ Finish("rejected")

\* The seller's code reverts: successSeller is false, line 158 reverts.
SellerRejects ==
    /\ pc = "paySeller"
    /\ Abort("rejected")

\* The buyer's code returns normally from the refund (line 165 passes).
BuyerReturns ==
    /\ pc = "refundBuyer"
    /\ Complete

\* The buyer's code reverts: successRefund is false, line 165 reverts.
BuyerRejects ==
    /\ pc = "refundBuyer"
    /\ Abort("rejected")

\* Mutant: the "Not listing owner" check is missing.
CancelOk_AnyCaller(caller, listingId) ==
    /\ ~mktEntered
    /\ ListingAt(listingId).isActive
    /\ balances[Mkt] >= ListingAt(listingId).amount

\* The modifier, the two require of cancelListing (lines 199-200) and the
\* token transfer of line 208.
CancelOk(caller, listingId) ==
    /\ ~mktEntered
    /\ ListingAt(listingId).seller = caller
    /\ ListingAt(listingId).isActive
    /\ balances[Mkt] >= ListingAt(listingId).amount

CancelListing(caller, listingId) ==
    LET listing == ListingAt(listingId) IN
    /\ CanCall(caller)
    /\ IF CancelOk(caller, listingId)
       THEN /\ Counted
            /\ listings' = [listings EXCEPT ![listingId].isActive = FALSE,
                                            ![listingId].amount = 0]
            /\ balances' = Move(balances, Mkt, caller, listing.amount)
            /\ mktEntered' = MktGuardExit
            /\ UNCHANGED <<allowance, creditMetadata, userRetiredCredits,
                           projectCredits, nextCreditId, totalRetired,
                           tokenEntered, userListings, userTrades,
                           nextListingId, platformFee, totalVolume,
                           totalTrades, ethBalance, now, nftVars, regVars, frameVars,
                           histVars>>
       ELSE Revert

\* No nonReentrant modifier on this function.
\* Mutant: the "Not listing owner" check is missing.
UpdatePriceOk_AnyCaller(caller, listingId, newPrice) ==
    /\ ListingAt(listingId).isActive
    /\ newPrice > 0

\* The three require of updateListingPrice (lines 223-225).
UpdatePriceOk(caller, listingId, newPrice) ==
    /\ ListingAt(listingId).seller = caller
    /\ ListingAt(listingId).isActive
    /\ newPrice > 0

UpdateListingPrice(caller, listingId, newPrice) ==
    /\ CanCall(caller)
    /\ IF UpdatePriceOk(caller, listingId, newPrice)
       THEN /\ Counted
            /\ listings' = [listings EXCEPT ![listingId].pricePerCredit = newPrice]
            /\ UNCHANGED <<ledgerVars, userListings, userTrades, nextListingId,
                           platformFee, totalVolume, totalTrades, mktEntered,
                           ethBalance, now, nftVars, regVars, frameVars, histVars>>
       ELSE Revert

\* onlyOwner, no nonReentrant modifier.
\* Mutant: the "Fee too high" check is missing.
UpdateFeeOk_NoCap(caller, newFee) ==
    caller = Owner

\* onlyOwner and the require of line 285.
UpdateFeeOk(caller, newFee) ==
    /\ caller = Owner
    /\ newFee <= MaxFeeBps

UpdatePlatformFee(caller, newFee) ==
    /\ CanCall(caller)
    /\ IF UpdateFeeOk(caller, newFee)
       THEN /\ Counted
            /\ platformFee' = newFee
            /\ UNCHANGED <<ledgerVars, listings, userListings, userTrades,
                           nextListingId, totalVolume, totalTrades, mktEntered,
                           ethBalance, now, nftVars, regVars, frameVars, histVars>>
       ELSE Revert

\* onlyOwner, no nonReentrant modifier.  The whole value balance of the
\* contract is sent to the owner, whose code accepts it or reverts.  Nothing
\* follows the transfer but the check of its success, so whatever the owner's
\* code calls while it holds control is the same as calling it afterwards:
\* the transfer is one step.
WithdrawOk(caller, accepted) ==
    /\ caller = Owner
    /\ ethBalance[Mkt] > 0
    /\ accepted

WithdrawFees(caller, accepted) ==
    LET balance == ethBalance[Mkt] IN
    /\ CanCall(caller)
    /\ IF WithdrawOk(caller, accepted)
       THEN /\ Counted
            /\ ethBalance' = Move(ethBalance, Mkt, Owner, balance)
            /\ feesDue' = feesDue - balance
            /\ UNCHANGED <<ledgerVars, mktVars, now, nftVars, regVars, frameVars,
                           totalMinted, unsolicited, mintLog>>
       ELSE Revert

\* Mutant: the second loop copies every listing, active or not.
GetActiveListings_All ==
    [k \in 1..nextListingId |-> ListingAt(k - 1)]

\* First loop of getActiveListings (lines 239-243), from index i on.
RECURSIVE CountActiveFrom(_)
CountActiveFrom(i) ==
    IF i < nextListingId
    THEN (IF ListingAt(i).isActive THEN 1 ELSE 0) + CountActiveFrom(i + 1)
    ELSE 0

\* Second loop (lines 249-254), from index i on with `index` slots filled:
\* the array after the loop.
RECURSIVE FillActiveFrom(_, _, _)
FillActiveFrom(i, index, activeListings) ==
    IF i < nextListingId
    THEN IF ListingAt(i).isActive
         THEN FillActiveFrom(i + 1, index + 1,
                             [activeListings EXCEPT ![index + 1] = ListingAt(i)])
         ELSE FillActiveFrom(i + 1, index, activeListings)
    ELSE activeListings

\* The view getActiveListings (lines 235-257): an array of activeCount zero
\* structs, then filled.  (Sequences count from 1, the array from 0.)
GetActiveListings ==
    FillActiveFrom(0, 0, [k \in 1..CountActiveFrom(0) |-> ZeroListing])

\* Mutant: the first component counts the active listings only.
GetMarketplaceStats_ActiveOnly ==
    <<Cardinality({i \in DOMAIN listings : listings[i].isActive}),
      totalVolume, totalTrades, platformFee>>

\* The view getMarketplaceStats (line 316).
GetMarketplaceStats ==
    <<nextListingId, totalVolume, totalTrades, platformFee>>

\* A later block.
Tick ==
    /\ pc = "idle"
    /\ calls < MaxCalls
    /\ Counted
    /\ now' = now + 1
    /\ UNCHANGED <<ledgerVars, mktVars, ethBalance, frameVars,
                   histVars, regVars, nftVars>>

\* ---------------------------------------------------------------- machine
\* CarbonCreditRegistry after its constructor.
ZeroIssuer == [name |-> "", issuerAddress |-> Zero, isVerified |-> FALSE,
               isActive |-> FALSE, registeredAt |-> 0, projectsRegistered |-> 0]

\* CarbonCreditNFT after its constructor.
NftDeployed ==
    /\ certificates = <<>>
    /\ userCertificates = [u \in Users |-> <<>>]
    /\ nextTokenId = 0
    /\ tokenOwner = <<>>
    /\ tokenURIs = <<>>

RegistryDeployed ==
    /\ projects = <<>>
    /\ issuers = [u \in Users |-> ZeroIssuer]
    /\ issuerProjects = [u \in Users |-> <<>>]
    /\ isRegisteredIssuer = [u \in Users |-> FALSE]
    /\ nextProjectId = 0
    /\ totalProjects = 0
    /\ totalVerifiedProjects = 0
    /\ roles = [DEFAULT_ADMIN_ROLE |-> {Owner}, ADMIN_ROLE |-> {Owner},
                VERIFIER_ROLE |-> {Owner}]

Init ==
    /\ balances = [a \in Addr |-> 0]
    /\ allowance = [u \in Users |-> 0]
    /\ creditMetadata = <<>>
    /\ userRetiredCredits = [u \in Users |-> <<>>]
    /\ projectCredits = [p \in LedgerProjectNames |-> 0]
    /\ nextCreditId = 0
    /\ totalRetired = 0
    /\ tokenEntered = FALSE
    /\ listings = <<>>
    /\ userListings = [u \in Users |-> <<>>]
    /\ userTrades = [u \in Users |-> <<>>]
    /\ nextListingId = 0
    /\ platformFee = InitialFee
    /\ totalVolume = 0
    /\ totalTrades = 0
    /\ mktEntered = FALSE
    /\ ethBalance = [a \in Addr |-> IF a = Mkt THEN 0 ELSE InitEth]
    /\ now = 0
    /\ pc = "idle"
    /\ frame = NoFrame
    /\ saved = NoSave
    /\ outcome = "none"
    /\ totalMinted = 0
    /\ unsolicited = 0
    /\ feesDue = 0
    /\ mintLog = <<>>
    /\ calls = 0
    /\ RegistryDeployed
    /\ NftDeployed

Payments(listingId, amount) ==
    LET tp == TotalPriceOf(amount, ListingAt(listingId).pricePerCredit)
    IN  {v \in {0, tp - 1, tp, tp + 1} : v >= 0}

Next ==
    \/ \E c \in Users, to \in Addr, a \in MintAmounts, p \in ProjectNames,
          t \in ProjectTypes, l \in Locations, v \in {now, now + 1} :
          MintCredits(c, to, a, p, t, l, v)
    \/ \E c \in Users, a \in 0..1, id \in 0..nextCreditId :
          RetireCredits(c, a, id)
    \/ \E c \in Users, to \in Addr, a \in 0..MaxAmount : Transfer(c, to, a)
    \/ \E c \in Users, a \in MintAmounts : Approve(c, a)
    \/ \E c \in Users, a \in 0..MaxAmount : Burn(c, a)
    \/ \E c \in Users, a \in 0..MaxAmount, p \in Prices, id \in ListingCreditIds,
          n \in ListingNames : CreateListing(c, a, p, id, n)
    \/ \E c \in Users, id \in 0..nextListingId, a \in 0..MaxAmount :
          \E v \in Payments(id, a) : BuyCredits(c, id, a, v)
    \/ SellerReturns
    \/ SellerRejects
    \/ BuyerReturns
    \/ BuyerRejects
    \/ \E c \in Users, id \in 0..nextListingId : CancelListing(c, id)
    \/ \E c \in Users, id \in 0..nextListingId, p \in Prices :
          UpdateListingPrice(c, id, p)
    \/ \E c \in Users, f \in FeeInputs : UpdatePlatformFee(c, f)
    \/ \E c \in Users, ok \in BOOLEAN : WithdrawFees(c, ok)
    \/ Tick

Spec == Init /\ [][Next]_vars

\* ------------------------------------------------------------ observations
\* Sum of the remaining amounts of the active listings.
ActiveRemaining ==
    SumOver([i \in DOMAIN listings |->
               IF listings[i].isActive THEN listings[i].amount ELSE 0],
            DOMAIN listings)

\* The step that ends a frame by a revert / by its normal end.
Reverted  == pc # "idle" /\ pc' = "idle" /\ outcome' # "completed"
Completed == pc # "idle" /\ pc' = "idle" /\ outcome' = "completed"
\* A step taken by the recipient's code while the frame stays open.
NestedStep == pc # "idle" /\ pc' = pc

RetiredIn(meta, id) == id \in DOMAIN meta /\ meta[id].isRetired

\* How often `id` occurs in the retired lists.
Occurrences(lists, id) ==
    SumOver([u \in Users |->
               Cardinality({i \in 1..Len(lists[u]) : lists[u][i] = id})],
            Users)

\* ------------------------------------------------------------------ claims

\* C1: in every reachable state the sum of all balances plus totalRetired
\* equals the sum of all amounts ever minted.
C1_SupplyConserved ==
    SumOver(balances, Addr) + totalRetired = totalMinted

\* C2 as stated: in every reachable state the ledger balance held by the
\* Marketplace equals the sum of the remaining amounts of the active listings.
C2_EscrowEqualsListings ==
    balances[Mkt] = ActiveRemaining

\* C2 amended: the Marketplace's ledger balance equals the active listings'
\* remaining amounts plus what was transferred or minted to its address
\* directly; it is never less than the listings' remaining amounts.
C2_EscrowCoversListings ==
    /\ balances[Mkt] = ActiveRemaining + unsolicited
    /\ balances[Mkt] >= ActiveRemaining

C2_Witness ==
    /\ unsolicited > 0
    /\ ActiveRemaining > 0
    /\ totalTrades > 0

\* C3: a credit id is retired at most once.  Once a credit is retired, no
\* caller with any amount passes the checks of retireCredits for it, and no
\* step changes its record (retired flag, retiredBy, retiredAt) or adds it to
\* a retired list again.  (A frame that reverts undoes a retirement made
\* inside it: that retirement never succeeded.)
C3_RetiredOnce ==
    /\ [](\A id \in DOMAIN creditMetadata :
            creditMetadata[id].isRetired =>
               \A c \in Users, a \in 0..SumOver(balances, Addr) :
                  ~RetireOk(c, a, id))
    /\ [][\A id \in DOMAIN creditMetadata :
            (/\ creditMetadata[id].isRetired
             /\ (Reverted => RetiredIn(saved.creditMetadata, id)))
            => /\ id \in DOMAIN creditMetadata'
               /\ creditMetadata'[id] = creditMetadata[id]
               /\ Occurrences(userRetiredCredits', id) = 1
               /\ Occurrences(userRetiredCredits, id) = 1]_vars

C3_Witness ==
    \E id \in DOMAIN creditMetadata :
       /\ creditMetadata[id].isRetired
       /\ creditMetadata[id].retiredAt < now
       /\ \E u \in Users : u # creditMetadata[id].retiredBy /\ balances[u] > 0
       /\ pc = "idle"

\* C4: while buyCredits is inside an external value transfer, the trade is
\* already in both histories and the counters are already incremented.
C4_BookkeepingBeforeTransfers ==
    pc # "idle" =>
       /\ totalTrades = saved.totalTrades + 1
       /\ totalVolume = saved.totalVolume + frame.totalPrice
       /\ Len(userTrades[frame.buyer]) = Len(saved.userTrades[frame.buyer]) + 1
       /\ Len(userTrades[frame.seller]) = Len(saved.userTrades[frame.seller]) + 1

\* C5: while buyCredits is inside an external value transfer, a nested call
\* of the recipient to a Marketplace entry point changes nothing of the
\* Marketplace (its storage and the value it holds).
C5_NestedCallsRejected ==
    [][NestedStep => /\ UNCHANGED mktVars
                     /\ ethBalance'[Mkt] = ethBalance[Mkt]]_vars

\* C6: whenever no guarded operation is running, both reentrancy locks are
\* free, whichever way the last operation ended; the Marketplace's lock is
\* held exactly while buyCredits is running.
C6_LockReleased ==
    /\ pc = "idle" => ~mktEntered /\ ~tokenEntered
    /\ pc # "idle" => mktEntered

C6_Witness ==
    /\ pc = "idle"
    /\ outcome \in {"rejected", "refundFailed"}
    /\ ~mktEntered
    /\ nextListingId > 0
    /\ nextCreditId > 0

\* C7: withdrawFees passes its checks only for the owner and only when the
\* Marketplace holds value, and in every committed state the value held by
\* the Marketplace is exactly the fees of the completed sales not yet
\* withdrawn: no withdrawal, nested in a payment callback or not, has taken
\* more than the accrued fees.
C7_WithdrawOnlyFees ==
    /\ \A c \in Users, ok \in BOOLEAN :
          WithdrawOk(c, ok) => c = Owner /\ ethBalance[Mkt] > 0
    /\ pc = "idle" => ethBalance[Mkt] = feesDue
    /\ pc = "refundBuyer" => ethBalance[Mkt] = feesDue

\* The owner, as buyer, has withdrawn from inside the refund callback.
C7_Witness ==
    /\ pc = "refundBuyer"
    /\ frame.buyer = Owner
    /\ frame.fee > 0
    /\ ethBalance[Mkt] = 0
    /\ feesDue = 0

\* C9: a successful buyCredits leaves the seller with sellerProceeds more,
\* the buyer with totalPrice less, the Marketplace with fee more, and every
\* other principal's value as it was.
C9_ValueMovesExactly ==
    [][Completed =>
         \A a \in Addr :
            ethBalance'[a] = saved.ethBalance[a]
               + (IF a = frame.seller THEN frame.sellerAmount ELSE 0)
               - (IF a = frame.buyer THEN frame.totalPrice ELSE 0)
               + (IF a = Mkt THEN frame.fee ELSE 0)]_vars

\* C10: when the seller rejects the payment or the buyer rejects the refund,
\* buyCredits ends with the listing, the ledger balances, the trade
\* histories, the counters and the value balances as they were on entry.
C10_RejectionRollsBack ==
    [][(pc # "idle" /\ outcome' = "rejected") =>
         /\ pc' = "idle"
         /\ listings' = saved.listings
         /\ balances' = saved.balances
         /\ userTrades' = saved.userTrades
         /\ totalVolume' = saved.totalVolume
         /\ totalTrades' = saved.totalTrades
         /\ ethBalance' = saved.ethBalance
         /\ ~mktEntered']_vars

C10_Witness ==
    /\ pc = "idle"
    /\ outcome = "rejected"
    /\ totalTrades = 0
    /\ ActiveRemaining > 0

\* ------------------------------------------------- price math on its own
\* The machine started in the state reached by: the owner mints `a` to
\* alice, alice approves and lists all of it at price `p`, the owner sets the
\* fee rate to `f`; from there only buyCredits runs.  Every fee rate the
\* contract admits is covered.
QuotePrices  == {1, 3, 199, PriceHigh}
QuoteAmounts == 1..(MaxAmount + 1)

PriceInit ==
    \E a \in QuoteAmounts, p \in QuotePrices, f \in 0..MaxFeeBps :
       /\ balances = [x \in Addr |-> IF x = Mkt THEN a ELSE 0]
       /\ allowance = [u \in Users |-> 0]
       /\ creditMetadata =
            [i \in {0} |-> [projectName |-> "Solar",
                            projectType |-> "Renewable Energy",
                            location |-> "India", vintage |-> 0,
                            timestamp |-> 0, isRetired |-> FALSE,
                            retiredBy |-> Zero, retiredAt |-> 0]]
       /\ userRetiredCredits = [u \in Users |-> <<>>]
       /\ projectCredits = [n \in LedgerProjectNames |->
                              IF n = "Solar" THEN a ELSE 0]
       /\ nextCreditId = 1
       /\ totalRetired = 0
       /\ tokenEntered = FALSE
       /\ listings =
            [i \in {0} |-> [seller |-> "alice", amount |-> a,
                            pricePerCredit |-> p, isActive |-> TRUE,
                            createdAt |-> 0, creditId |-> 0,
                            projectName |-> "Solar"]]
       /\ userListings = [u \in Users |-> IF u = "alice" THEN <<0>> ELSE <<>>]
       /\ userTrades = [u \in Users |-> <<>>]
       /\ nextListingId = 1
       /\ platformFee = f
       /\ totalVolume = 0
       /\ totalTrades = 0
       /\ mktEntered = FALSE
       /\ ethBalance = [x \in Addr |-> IF x = Mkt THEN 0 ELSE InitEth]
       /\ now = 0
       /\ pc = "idle"
       /\ frame = NoFrame
       /\ saved = NoSave
       /\ outcome = "none"
       /\ totalMinted = a
       /\ unsolicited = 0
       /\ feesDue = 0
       /\ mintLog = <<[amount |-> a, projectName |-> "Solar",
                       projectType |-> "Renewable Energy",
                       location |-> "India", vintage |-> 0]>>
       /\ calls = MaxCalls - 2
       /\ RegistryDeployed
       /\ NftDeployed

PriceNext ==
    \/ \E c \in Users, id \in 0..nextListingId, a \in 0..(MaxAmount + 1) :
          \E v \in Payments(id, a) : BuyCredits(c, id, a, v)
    \/ SellerReturns
    \/ SellerRejects
    \/ BuyerReturns
    \/ BuyerRejects

PriceSpec == PriceInit /\ [][PriceNext]_vars

\* C8: in every buyCredits that passed its checks, totalPrice is
\* floor(amount * pricePerUnit / U), fee is floor(totalPrice * feeRateBps /
\* 10000), sellerProceeds is totalPrice - fee (never negative), the seller is
\* paid sellerProceeds and the Marketplace keeps the rest of the payment; the
\* total external value never changes.
C8_PriceMath ==
    /\ SumOver(ethBalance, Addr) = Cardinality(Users) * InitEth
    /\ pc # "idle" =>
         LET sold == saved.listings[frame.listingId]
             tp   == (frame.amount * sold.pricePerCredit) \div UNIT
             fee  == (tp * saved.platformFee) \div 10000
         IN  /\ frame.totalPrice = tp
             /\ frame.fee = fee
             /\ frame.sellerAmount = tp - fee
             /\ frame.sellerAmount >= 0
             /\ frame.fee + frame.sellerAmount = frame.totalPrice
    /\ pc = "paySeller" =>
         /\ ethBalance[frame.seller] =
               saved.ethBalance[frame.seller] + frame.sellerAmount
         /\ ethBalance[Mkt] =
               saved.ethBalance[Mkt] + frame.value - frame.sellerAmount
    /\ (pc = "idle" /\ outcome = "completed") =>
         ethBalance[Mkt] = feesDue

\* A sale in which both divisions round.
C8_Witness ==
    /\ pc = "paySeller"
    /\ frame.fee > 0
    /\ (frame.amount * saved.listings[frame.listingId].pricePerCredit) % UNIT # 0
    /\ (frame.totalPrice * saved.platformFee) % 10000 # 0
    /\ saved.platformFee = MaxFeeBps

\* ------------------------------------------------ buying: checks and effect
\* The step in which a call of buyCredits passes its checks and opens a frame.
Entered == pc = "idle" /\ pc' = "paySeller"

\* Amounts a caller may ask for, one more than any listing holds included.
AskAmounts == 0..(MaxAmount + 1)

\* Preconditions of buyCredits other than the payment, as the claim lists
\* them.
OtherBuyPre(caller, listingId, amount) ==
    /\ pc = "idle"
    /\ ListingAt(listingId).isActive
    /\ amount > 0
    /\ amount <= ListingAt(listingId).amount
    /\ caller # ListingAt(listingId).seller

\* C11: buyCredits passes its checks only if the listing is active, amount >
\* 0, amount <= remaining, buyer # seller and payment >= totalPrice; a step
\* that opens a buy (and so every completed buy) was made on a state where
\* all five hold, so a call for which one fails leaves listings, balances,
\* histories, counters and held value as they were.
C11_BuyPreconditions ==
    /\ [](\A c \in Users, id \in 0..nextListingId, a \in AskAmounts :
            \A v \in Payments(id, a) :
               BuyOk(c, id, a, v) =>
                  /\ ListingAt(id).isActive
                  /\ a > 0
                  /\ a <= ListingAt(id).amount
                  /\ c # ListingAt(id).seller
                  /\ v >= TotalPriceOf(a, ListingAt(id).pricePerCredit))
    /\ [][Entered =>
            LET sold == ListingAt(frame'.listingId) IN
            /\ sold.isActive
            /\ frame'.amount > 0
            /\ frame'.amount <= sold.amount
            /\ frame'.buyer # sold.seller
            /\ frame'.value >= TotalPriceOf(frame'.amount, sold.pricePerCredit)
            /\ saved' = Snapshot]_vars
    /\ [][(pc = "idle" /\ pc' = "idle") =>
            /\ userTrades' = userTrades
            /\ totalVolume' = totalVolume
            /\ totalTrades' = totalTrades]_vars

\* A sale was completed and left an active listing for which a buyer's call
\* asking for more than remains, or paying one less than the price, fails.
C11_Witness ==
    /\ pc = "idle"
    /\ outcome = "completed"
    /\ \E id \in DOMAIN listings, c \in Users :
          LET l  == listings[id]
              tp == TotalPriceOf(l.amount, l.pricePerCredit) IN
          /\ l.isActive
          /\ c # l.seller
          /\ tp > 0
          /\ BuyOk(c, id, l.amount, tp)
          /\ ~BuyOk(c, id, l.amount, tp - 1)
          /\ ~BuyOk(c, id, l.amount + 1, ethBalance[c])
          /\ ~BuyOk(l.seller, id, l.amount, tp)

\* C12: with the other preconditions met, a call paying exactly totalPrice
\* passes every check and a call paying totalPrice - 1 does not; a buy paid
\* exactly is never in a refund, and when it completes the buyer has paid
\* totalPrice and received nothing back.
C12_PaymentBoundary ==
    /\ [](\A c \in Users, id \in 0..nextListingId, a \in AskAmounts :
            OtherBuyPre(c, id, a) =>
               LET tp == TotalPriceOf(a, ListingAt(id).pricePerCredit) IN
               /\ BuyOk(c, id, a, tp)
               /\ tp > 0 => ~BuyOk(c, id, a, tp - 1))
    /\ [](pc = "refundBuyer" => frame.value > frame.totalPrice)
    /\ [][(Completed /\ frame.value = frame.totalPrice) =>
            /\ pc = "paySeller"
            /\ ethBalance'[frame.buyer] =
                  saved.ethBalance[frame.buyer] - frame.totalPrice]_vars

\* alice has bought at a positive price paying exactly the price.
C12_Witness ==
    /\ pc = "idle"
    /\ outcome = "completed"
    /\ Len(userTrades["alice"]) = 1
    /\ userTrades["alice"][1].buyer = "alice"
    /\ userTrades["alice"][1].totalPrice > 0
    /\ ethBalance["alice"] = InitEth - userTrades["alice"][1].totalPrice

\* C13: a buy of `a` on a listing with remaining `r` leaves the listing with
\* remaining r - a, active iff r - a > 0, and moves exactly `a` from the
\* Marketplace's ledger balance to the buyer's; the listing is as the buy
\* left it when the buy completes.
C13_BuyEffect ==
    /\ [][Entered =>
            LET id == frame'.listingId
                a  == frame'.amount
                r  == ListingAt(id).amount IN
            /\ listings'[id].amount = r - a
            /\ listings'[id].isActive = (r - a > 0)
            /\ \A i \in DOMAIN listings : i # id => listings'[i] = listings[i]
            /\ balances'[frame'.buyer] = balances[frame'.buyer] + a
            /\ balances'[Mkt] = balances[Mkt] - a
            /\ \A u \in Users : u # frame'.buyer => balances'[u] = balances[u]]_vars
    /\ [][Completed =>
            LET id == frame.listingId
                r  == saved.listings[id].amount IN
            /\ listings'[id].amount = r - frame.amount
            /\ listings'[id].isActive = (r - frame.amount > 0)]_vars

\* A partial buy and then a buy of the remainder of the same listing.
C13_Witness ==
    /\ pc = "idle"
    /\ totalTrades = 2
    /\ \E id \in DOMAIN listings :
          /\ ~listings[id].isActive
          /\ listings[id].amount = 0
          /\ \E u \in Users :
                /\ u # listings[id].seller
                /\ Len(userTrades[u]) = 2
                /\ userTrades[u][1].listingId = id
                /\ userTrades[u][2].listingId = id
                /\ balances[u] = userTrades[u][1].amount + userTrades[u][2].amount

\* ------------------------------------------------------- listing lifecycle
\* The listings as the last committed state has them: a frame's writes are
\* committed when it completes and never if it reverts.
CommittedListings == IF pc = "idle" THEN listings ELSE saved.listings

\* A top-level step (no frame before or after it).
TopLevel == pc = "idle" /\ pc' = "idle"

\* C14: a listing's remaining amount never increases; it decreases only in
\* a buy, or to zero in a cancel; a listing is inactive exactly when its
\* remaining amount is zero, and from then on no call of buyCredits,
\* cancelListing or updateListingPrice passes its checks for it and no step
\* changes its active flag or its remaining amount.  This holds of the
\* committed listings, and of the listings as seen inside a running buy up
\* to the buy's revert.
C14_ListingOneWay ==
    /\ [](\A id \in DOMAIN listings :
            /\ listings[id].isActive <=> listings[id].amount > 0
            /\ ~listings[id].isActive =>
                  \A c \in Users :
                     /\ ~CancelOk(c, id)
                     /\ \A p \in Prices : ~UpdatePriceOk(c, id, p)
                     /\ \A a \in AskAmounts : ~BuyOk(c, id, a, ethBalance[c]))
    /\ [][\A id \in DOMAIN CommittedListings :
            LET before == CommittedListings[id] IN
            /\ id \in DOMAIN CommittedListings'
            /\ CommittedListings'[id].amount <= before.amount
            /\ ~before.isActive =>
                  /\ ~CommittedListings'[id].isActive
                  /\ CommittedListings'[id].amount = before.amount]_vars
    /\ [][~Reverted =>
            \A id \in DOMAIN listings :
               /\ id \in DOMAIN listings'
               /\ listings'[id].amount <= listings[id].amount
               /\ ~listings[id].isActive =>
                     /\ ~listings'[id].isActive
                     /\ listings'[id].amount = listings[id].amount
               /\ listings'[id].amount < listings[id].amount =>
                     \/ Entered /\ frame'.listingId = id
                     \/ /\ TopLevel
                        /\ listings'[id].amount = 0
                        /\ ~listings'[id].isActive]_vars

\* A listing sold in part and then cancelled: the rest is back with the
\* seller.
C14_Witness ==
    /\ pc = "idle"
    /\ totalTrades = 1
    /\ \E id \in DOMAIN listings :
          /\ ~listings[id].isActive
          /\ listings[id].amount = 0
          /\ balances[listings[id].seller] > 0
          /\ balances[Mkt] = 0
          /\ \E u \in Users : u # listings[id].seller /\ balances[u] > 0

\* C15: cancelListing passes its checks only for the listing's seller on an
\* active listing; the step that cancels moves exactly the listing's
\* remaining amount from the Marketplace to the seller on the ledger, sets
\* the remaining amount to 0, deactivates the listing and touches no other
\* listing; for a listing that is inactive no caller passes the checks.
C15_CancelReturnsEscrow ==
    /\ [](\A c \in Users, id \in 0..nextListingId :
            /\ CancelOk(c, id) =>
                  /\ id \in DOMAIN listings
                  /\ c = listings[id].seller
                  /\ listings[id].isActive
            /\ ~ListingAt(id).isActive => ~CancelOk(c, id))
    /\ [][\A id \in DOMAIN listings :
            (TopLevel /\ listings[id].isActive /\ ~listings'[id].isActive) =>
               LET l == listings[id] IN
               /\ listings' = [listings EXCEPT ![id].isActive = FALSE,
                                               ![id].amount = 0]
               /\ balances' = Move(balances, Mkt, l.seller, l.amount)
               /\ balances'[l.seller] = balances[l.seller] + l.amount
               /\ UNCHANGED <<ethBalance, userTrades, totalVolume,
                              totalTrades, nextListingId, platformFee>>]_vars

\* The only listing was cancelled before any sale: all that was minted is
\* back with the seller.
C15_Witness ==
    /\ pc = "idle"
    /\ nextListingId = 1
    /\ totalTrades = 0
    /\ outcome = "none"
    /\ ~listings[0].isActive
    /\ listings[0].amount = 0
    /\ totalMinted > 0
    /\ balances[listings[0].seller] = totalMinted

\* C16: createListing passes its checks only with amount > 0, price > 0,
\* balance >= amount and allowance >= amount; a listing is created exactly
\* in a step that also moves its amount from the seller to the Marketplace:
\* the new listing is active, has the next sequential id and the old
\* listings are untouched; and the Marketplace's escrow grows in no other
\* step (next id and listing records unchanged otherwise).
C16_CreateAtomic ==
    /\ [](\A c \in Users, a \in AskAmounts, p \in Prices :
            CreateOk(c, a, p) =>
               /\ a > 0
               /\ p > 0
               /\ balances[c] >= a
               /\ allowance[c] >= a)
    /\ [](DOMAIN listings = 0..(nextListingId - 1))
    /\ [][nextListingId' # nextListingId =>
            LET new == listings'[nextListingId] IN
            /\ TopLevel
            /\ nextListingId' = nextListingId + 1
            /\ new.isActive
            /\ new.amount > 0
            /\ new.pricePerCredit > 0
            /\ new.seller \in Users
            /\ balances' = Move(balances, new.seller, Mkt, new.amount)
            /\ balances[new.seller] >= new.amount
            /\ allowance[new.seller] >= new.amount
            /\ \A i \in DOMAIN listings : listings'[i] = listings[i]
            /\ userListings' = [userListings EXCEPT
                                  ![new.seller] = Append(@, nextListingId)]]_vars
    /\ [][(~Reverted /\ balances'[Mkt] - unsolicited' > balances[Mkt] - unsolicited)
            => nextListingId' = nextListingId + 1]_vars

\* Two listings created one after the other, both funded.
C16_Witness ==
    /\ pc = "idle"
    /\ nextListingId = 2
    /\ listings[0].isActive
    /\ listings[1].isActive
    /\ listings[1].seller = listings[0].seller
    /\ balances[Mkt] = listings[0].amount + listings[1].amount
    /\ unsolicited = 0
    /\ userListings[listings[0].seller] = <<0, 1>>

\* C17: for every listing, every amount and every payment, buyCredits called
\* by the listing's seller fails its checks; no buy is ever opened by the
\* seller of the listing and no recorded trade has its seller as buyer.
C17_NoSelfBuy ==
    /\ [](\A id \in DOMAIN listings, a \in AskAmounts :
            \A v \in Payments(id, a) \cup {ethBalance[listings[id].seller]} :
               ~BuyOk(listings[id].seller, id, a, v))
    /\ [](pc # "idle" => frame.buyer # frame.seller)
    /\ [](\A u \in Users : \A i \in 1..Len(userTrades[u]) :
            userTrades[u][i].buyer # userTrades[u][i].seller)
    /\ [][Entered => frame'.buyer # ListingAt(frame'.listingId).seller]_vars

\* The owner's listing is active after alice bought from it, and the owner
\* holds the value to buy the rest: only the seller check stands in the way.
C17_Witness ==
    /\ pc = "idle"
    /\ totalTrades = 1
    /\ \E id \in DOMAIN listings :
          LET l  == listings[id]
              tp == TotalPriceOf(l.amount, l.pricePerCredit) IN
          /\ l.isActive
          /\ l.seller = Owner
          /\ tp > 0
          /\ ethBalance[Owner] > InitEth
          /\ BuyOk("alice", id, l.amount, tp)
          /\ ~BuyOk(Owner, id, l.amount, tp)

\* C18: updateListingPrice passes its checks only for the listing's seller,
\* on an active listing, with newPrice > 0; a step that changes a listing's
\* price (outside the revert of a buy) changes nothing else of that listing,
\* no other listing, no ledger balance, no value balance and nothing else of
\* the Marketplace.
C18_PriceUpdateFrame ==
    /\ [](\A c \in Users, id \in 0..nextListingId, p \in Prices :
            UpdatePriceOk(c, id, p) =>
               /\ id \in DOMAIN listings
               /\ c = listings[id].seller
               /\ listings[id].isActive
               /\ p > 0)
    /\ [][\A id \in DOMAIN listings :
            (/\ ~Reverted
             /\ listings'[id].pricePerCredit # listings[id].pricePerCredit) =>
               /\ listings[id].isActive
               /\ listings'[id].pricePerCredit > 0
               /\ listings' = [listings EXCEPT ![id].pricePerCredit =
                                                listings'[id].pricePerCredit]
               /\ UNCHANGED <<ledgerVars, ethBalance, userListings,
                              userTrades, nextListingId, platformFee,
                              totalVolume, totalTrades, mktEntered>>]_vars

\* A seller has repriced the listing from inside the payment callback of a
\* buy on it.
C18_Witness ==
    /\ pc = "paySeller"
    /\ listings[frame.listingId].isActive
    /\ listings[frame.listingId].pricePerCredit #
          saved.listings[frame.listingId].pricePerCredit
    /\ listings[frame.listingId].amount =
          saved.listings[frame.listingId].amount - frame.amount
    /\ balances[Mkt] = listings[frame.listingId].amount

\* C19: the fee rate starts at 25 and is at most 500 basis points in every
\* reachable state; updatePlatformFee passes its checks only for the owner
\* and only with a rate of at most 500, and a step that changes the rate
\* changes nothing else of the Marketplace; the fee of every sale is at most
\* its totalPrice.
C19_FeeCapped ==
    /\ platformFee = InitialFee
    /\ [](platformFee \in 0..MaxFeeBps)
    /\ [](\A c \in Users, f \in FeeInputs \cup {0, InitialFee} :
            UpdateFeeOk(c, f) => c = Owner /\ f <= MaxFeeBps)
    /\ [](\A id \in DOMAIN listings, a \in AskAmounts :
            /\ QuoteOf(id, a).fee >= 0
            /\ QuoteOf(id, a).fee <= QuoteOf(id, a).totalPrice)
    /\ [](pc # "idle" => frame.fee \in 0..frame.totalPrice)
    /\ [][(~Reverted /\ platformFee' # platformFee) =>
            /\ platformFee' <= MaxFeeBps
            /\ UNCHANGED <<ledgerVars, ethBalance, listings, userListings,
                           userTrades, nextListingId, totalVolume,
                           totalTrades, mktEntered>>]_vars

\* A sale was made at the highest rate the contract admits.
C19_Witness ==
    /\ pc = "idle"
    /\ platformFee = MaxFeeBps
    /\ totalTrades = 1
    /\ feesDue > 0
    /\ feesDue = FeeOf(totalVolume, MaxFeeBps)

\* ------------------------------------------------------------- statistics
ListingsEverCreated ==
    SumOver([u \in Users |-> Len(userListings[u])], Users)

\* Sum of totalPrice over the trades `u` made as buyer.
BoughtBy(u) ==
    SumOver([i \in 1..Len(userTrades[u]) |->
               IF userTrades[u][i].buyer = u
               THEN userTrades[u][i].totalPrice ELSE 0],
            1..Len(userTrades[u]))

\* C20: totalVolume, totalTrades and the number of listings ever created
\* never decrease in any step; they change only when a buy completes, which
\* adds exactly 1 to totalTrades and exactly the sale's totalPrice to
\* totalVolume; getMarketplaceStats returns (listings ever created,
\* totalVolume, totalTrades, current fee rate), where totalTrades and
\* totalVolume agree with the recorded trades.
C20_CountersMonotone ==
    /\ [][/\ totalVolume' >= totalVolume
          /\ totalTrades' >= totalTrades
          /\ nextListingId' >= nextListingId
          /\ ListingsEverCreated' >= ListingsEverCreated]_vars
    /\ [][Completed =>
            /\ totalTrades' = totalTrades + 1
            /\ totalVolume' = totalVolume + frame.totalPrice
            /\ frame.totalPrice =
                  TotalPriceOf(frame.amount,
                               saved.listings[frame.listingId].pricePerCredit)]_vars
    /\ [][(totalTrades' # totalTrades \/ totalVolume' # totalVolume)
            => Completed]_vars
    /\ [](/\ GetMarketplaceStats =
               <<ListingsEverCreated, totalVolume, totalTrades, platformFee>>
          /\ GetMarketplaceStats[1] = Cardinality(DOMAIN listings)
          /\ 2 * totalTrades =
               SumOver([u \in Users |-> Len(userTrades[u])], Users)
          /\ totalVolume = SumOver([u \in Users |-> BoughtBy(u)], Users))

\* One listing, sold out in one sale at a positive price.
C20_Witness ==
    /\ pc = "idle"
    /\ GetMarketplaceStats[1] = 1
    /\ GetMarketplaceStats[2] > 0
    /\ GetMarketplaceStats[3] = 1
    /\ ~listings[0].isActive
    /\ balances[Mkt] = 0

\* ------------------------------------------------------ the Ledger at large
\* The same machine with two project names besides the empty one.  Of the
\* Marketplace, the operations that move ledger balances, on one unit at a
\* time.
LedgerNext ==
    \/ \E c \in Users, to \in Users, a \in MintAmounts,
          p \in LedgerProjectNames, t \in ProjectTypes, l \in Locations,
          v \in {now, now + 1} : MintCredits(c, to, a, p, t, l, v)
    \/ \E c \in Users, a \in 0..1, id \in 0..nextCreditId :
          RetireCredits(c, a, id)
    \/ \E c \in Users, to \in Users : Transfer(c, to, 1)
    \/ \E c \in Users : Approve(c, MaxAmount)
    \/ \E c \in Users : Burn(c, 1)
    \/ \E c \in Users, id \in ListingCreditIds, n \in ListingNames :
          CreateListing(c, 1, PriceHigh, id, n)
    \/ \E c \in Users, id \in 0..nextListingId :
          BuyCredits(c, id, 1, TotalPriceOf(1, ListingAt(id).pricePerCredit))
    \/ SellerReturns
    \/ SellerRejects
    \/ \E c \in Users, id \in 0..nextListingId : CancelListing(c, id)
    \/ Tick

LedgerSpec == Init /\ [][LedgerNext]_vars

\* The step in which credit `id` becomes retired.
NewlyRetired(id) ==
    /\ ~RetiredIn(creditMetadata, id)
    /\ RetiredIn(creditMetadata', id)

\* C21: the step that retires credit id, by caller c with some amount, sets
\* the credit's record to retired with retiredBy = c and retiredAt = now,
\* appends id to c's retired list, adds exactly amount to totalRetired and
\* takes exactly amount off c's balance; no other balance, no other credit's
\* record, no other principal's list and nothing of the Marketplace changes.
C21_RetireEffect ==
    [][\A id \in DOMAIN creditMetadata :
         NewlyRetired(id) =>
            LET c      == creditMetadata'[id].retiredBy
                amount == totalRetired' - totalRetired IN
            /\ c \in Users
            /\ amount >= 0
            /\ balances[c] >= amount
            /\ creditMetadata' =
                  [creditMetadata EXCEPT ![id].isRetired = TRUE,
                                         ![id].retiredBy = c,
                                         ![id].retiredAt = now]
            /\ userRetiredCredits' =
                  [userRetiredCredits EXCEPT ![c] = Append(@, id)]
            /\ balances' = [balances EXCEPT ![c] = @ - amount]
            /\ UNCHANGED <<nextCreditId, projectCredits, allowance, mktVars,
                           ethBalance, totalMinted>>]_vars

\* alice retired part of what she holds while the owner holds credits too.
C21_Witness ==
    /\ totalRetired > 0
    /\ balances["alice"] > 0
    /\ balances[Owner] > 0
    /\ userRetiredCredits["alice"] # <<>>
    /\ userRetiredCredits[Owner] = <<>>
    /\ \E id \in DOMAIN creditMetadata :
          /\ creditMetadata[id].retiredBy = "alice"
          /\ \E other \in DOMAIN creditMetadata :
                ~creditMetadata[other].isRetired

\* C22: retireCredits passes its checks only if the caller's balance is at
\* least amount, creditId is below the next credit id and the credit is not
\* retired; totalRetired, the retired lists and the retired flags change
\* only in a step that retires a credit which was valid and not retired,
\* from a balance that covered the amount.
C22_RetireRejected ==
    /\ [](\A c \in Users, a \in 0..(MaxAmount + 1),
             id \in 0..(nextCreditId + 1) :
            RetireOk(c, a, id) =>
               /\ balances[c] >= a
               /\ id < nextCreditId
               /\ ~MetadataAt(id).isRetired)
    /\ [][(/\ ~Reverted
           /\ \/ totalRetired' # totalRetired
              \/ userRetiredCredits' # userRetiredCredits
              \/ \E id \in DOMAIN creditMetadata :
                    /\ id \in DOMAIN creditMetadata'
                    /\ creditMetadata'[id].isRetired #
                          creditMetadata[id].isRetired) =>
            \E id \in DOMAIN creditMetadata :
               /\ NewlyRetired(id)
               /\ id < nextCreditId
               /\ balances[creditMetadata'[id].retiredBy] >=
                     totalRetired' - totalRetired
               /\ balances'[creditMetadata'[id].retiredBy] >= 0]_vars

\* Each way of failing is at hand: credit 0 is retired, id 1 does not exist,
\* and alice holds less than the owner.
C22_Witness ==
    /\ pc = "idle"
    /\ nextCreditId = 1
    /\ creditMetadata[0].isRetired
    /\ creditMetadata[0].retiredBy = Owner
    /\ balances["alice"] = 0
    /\ balances[Owner] > 0
    /\ ~RetireOk(Owner, 1, 0)
    /\ ~RetireOk(Owner, 1, 1)
    /\ ~tokenEntered

\* C23: mintCredits passes its checks only for a Minter with amount > 0, a
\* non-empty projectName and vintage <= now; credit ids are dense and
\* nextCreditId is the number of successful mints; the step of a mint gives
\* the new record the id nextCreditId had, leaves the older records alone
\* and adds exactly amount to one balance; in every other step the next
\* credit id and the set of records stay and no balance is created.
C23_MintChecked ==
    /\ [](\A c \in Users, a \in 0..MaxAmount, p \in LedgerProjectNames,
             v \in {now, now + 1} :
            MintOk(c, a, p, v) =>
               c \in Minters /\ a > 0 /\ p # "" /\ v <= now)
    /\ [](/\ nextCreditId = Len(mintLog)
          /\ DOMAIN creditMetadata = 0..(nextCreditId - 1))
    /\ [][(~Reverted /\ nextCreditId' # nextCreditId) =>
            /\ nextCreditId' = nextCreditId + 1
            /\ Len(mintLog') = Len(mintLog) + 1
            /\ LET m == mintLog'[Len(mintLog')] IN
               /\ m.amount > 0
               /\ m.projectName # ""
               /\ m.vintage <= now
               /\ creditMetadata'[nextCreditId].projectName = m.projectName
               /\ \E to \in Addr :
                     balances' = [balances EXCEPT ![to] = @ + m.amount]
               /\ totalMinted' = totalMinted + m.amount
            /\ \A i \in DOMAIN creditMetadata :
                  creditMetadata'[i] = creditMetadata[i]]_vars
    /\ [][(~Reverted /\ nextCreditId' = nextCreditId) =>
            /\ DOMAIN creditMetadata' = DOMAIN creditMetadata
            /\ mintLog' = mintLog
            /\ SumOver(balances', Addr) <= SumOver(balances, Addr)]_vars

\* Two mints, to two recipients, under two names.
C23_Witness ==
    /\ nextCreditId = 2
    /\ creditMetadata[0].projectName # creditMetadata[1].projectName
    /\ balances["alice"] = mintLog[1].amount
    /\ balances[Owner] = mintLog[2].amount
    /\ creditMetadata[1].timestamp > creditMetadata[0].timestamp

\* C24: getCreditMetadata succeeds exactly for the ids below the next credit
\* id, and for such an id returns the project name, type, location and
\* vintage passed to the mint that created it, with isRetired false (and no
\* retiring principal) as long as the id is in no retired list.
C24_MetadataRoundTrip ==
    \A id \in 0..(nextCreditId + 1) :
       LET r == GetCreditMetadata(id) IN
       /\ r.ok <=> id < nextCreditId
       /\ r.ok =>
             /\ r.value.projectName = mintLog[id + 1].projectName
             /\ r.value.projectType = mintLog[id + 1].projectType
             /\ r.value.location = mintLog[id + 1].location
             /\ r.value.vintage = mintLog[id + 1].vintage
             /\ r.value.isRetired <=> Occurrences(userRetiredCredits, id) > 0
             /\ ~r.value.isRetired =>
                   r.value.retiredBy = Zero /\ r.value.retiredAt = 0

\* Two credits under different names and vintages, the first retired.
C24_Witness ==
    /\ nextCreditId = 2
    /\ GetCreditMetadata(0).value.isRetired
    /\ ~GetCreditMetadata(1).value.isRetired
    /\ GetCreditMetadata(0).value.projectName = "Wind"
    /\ GetCreditMetadata(1).value.projectName = "Solar"
    /\ GetCreditMetadata(1).value.vintage > GetCreditMetadata(0).value.vintage
    /\ ~GetCreditMetadata(2).ok

\* Sum of the amounts of the successful mints made under `projectName`.
MintedUnder(projectName) ==
    SumOver([i \in DOMAIN mintLog |->
               IF mintLog[i].projectName = projectName
               THEN mintLog[i].amount ELSE 0],
            DOMAIN mintLog)

\* C25: for every project name the per-project aggregate equals the sum of
\* the amounts minted under that name, whoever received them; it changes in
\* no step other than a mint (transfer, retire, burn, createListing,
\* buyCredits, cancelListing leave it alone).
C25_ProjectAggregate ==
    /\ [](\A p \in LedgerProjectNames :
            GetProjectCredits(p) = MintedUnder(p))
    /\ [][(~Reverted /\ nextCreditId' = nextCreditId) =>
            projectCredits' = projectCredits]_vars

\* Two mints under one name, one under the other, and part of the supply
\* gone since.
C25_Witness ==
    /\ GetProjectCredits("Solar") = 2 * MaxAmount
    /\ GetProjectCredits("Wind") = MaxAmount
    /\ SumOver(balances, Addr) < totalMinted
    /\ balances["alice"] > 0

\* C34: a credit becomes retired only in a step that burns a positive
\* amount from the retiring principal, who therefore held credits.
C34_RetireBurnsPositive ==
    [][\A id \in DOMAIN creditMetadata :
         NewlyRetired(id) =>
            /\ totalRetired' > totalRetired
            /\ balances[creditMetadata'[id].retiredBy] > 0
            /\ balances'[creditMetadata'[id].retiredBy] <
                  balances[creditMetadata'[id].retiredBy]]_vars

\* ---------------------------------------------------- CarbonCreditRegistry
IssuerNames      == {"", "Acme"}
RegProjectNames  == {"", "Reforest"}
RegProjectTypes  == {"Forestry"}
RegLocations     == {"Brazil"}
MetadataURIs     == {"ipfs://meta"}
IssuedAmounts    == {1}

ZeroProject == [name |-> "", projectType |-> "", location |-> "",
                owner |-> Zero, registeredAt |-> 0, isVerified |-> FALSE,
                isActive |-> FALSE, totalCreditsIssued |-> 0,
                metadataURI |-> ""]

\* projects[id] of the mapping: the zero struct where nothing was stored.
ProjectAt(id) == IF id \in DOMAIN projects THEN projects[id] ELSE ZeroProject

\* AccessControl.hasRole.
HasRole(role, account) == account \in roles[role]

\* The Registry has no function that hands control to other code: its calls
\* are made one after the other.
RegCanCall == pc = "idle" /\ calls < MaxRegistryCalls

\* Mutant: the "Already registered" check is missing.
RegisterIssuerOk_Again(caller, name) ==
    name # ""

\* The two require of registerIssuer (lines 66-67).
RegisterIssuerOk(caller, name) ==
    /\ ~isRegisteredIssuer[caller]
    /\ name # ""

RegisterIssuer(caller, name) ==
    /\ RegCanCall
    /\ IF RegisterIssuerOk(caller, name)
       THEN /\ Counted
            /\ issuers' = [issuers EXCEPT ![caller] =
                              [name |-> name, issuerAddress |-> caller,
                               isVerified |-> FALSE, isActive |-> TRUE,
                               registeredAt |-> now,
                               projectsRegistered |-> 0]]
            /\ isRegisteredIssuer' =
                 [isRegisteredIssuer EXCEPT ![caller] = TRUE]
            /\ UNCHANGED <<projects, issuerProjects, nextProjectId,
                           totalProjects, totalVerifiedProjects, roles,
                           ledgerVars, mktVars, ethBalance, now, nftVars, frameVars,
                           histVars>>
       ELSE Revert

\* onlyRole(VERIFIER_ROLE) and the require of verifyIssuer (line 90).
VerifyIssuerOk(caller, issuerAddress) ==
    /\ HasRole("VERIFIER_ROLE", caller)
    /\ isRegisteredIssuer[issuerAddress]

\* Mutant: the flag is flipped instead of set.
IssuerVerified_Toggle(issuer) ==
    [issuer EXCEPT !.isVerified = ~@]

\* Line 92: the issuer's record once verified.
IssuerVerified(issuer) ==
    [issuer EXCEPT !.isVerified = TRUE]

VerifyIssuer(caller, issuerAddress) ==
    /\ RegCanCall
    /\ IF VerifyIssuerOk(caller, issuerAddress)
       THEN /\ Counted
            /\ issuers' = [issuers EXCEPT ![issuerAddress] = IssuerVerified(@)]
            /\ UNCHANGED <<projects, issuerProjects, isRegisteredIssuer,
                           nextProjectId, totalProjects,
                           totalVerifiedProjects, roles, ledgerVars, mktVars,
                           ethBalance, now, nftVars, frameVars, histVars>>
       ELSE Revert

\* Mutant: the caller is not checked to be an issuer.
RegisterProjectOk_AnyCaller(caller, name) ==
    name # ""

\* The three require of registerProject (lines 106-108).
RegisterProjectOk(caller, name) ==
    /\ isRegisteredIssuer[caller]
    /\ issuers[caller].isActive
    /\ name # ""

\* Mutant: the issuer's project count is not moved.
CountProject_Forgotten(issuer) == issuer

\* Line 125: issuers[msg.sender].projectsRegistered++.
CountProject(issuer) == [issuer EXCEPT !.projectsRegistered = @ + 1]

RegisterProject(caller, name, projectType, location, metadataURI) ==
    /\ RegCanCall
    /\ IF RegisterProjectOk(caller, name)
       THEN /\ Counted
            /\ nextProjectId' = nextProjectId + 1
            /\ projects' =
                 [i \in 0..nextProjectId |->
                    IF i = nextProjectId
                    THEN [name |-> name, projectType |-> projectType,
                          location |-> location, owner |-> caller,
                          registeredAt |-> now, isVerified |-> FALSE,
                          isActive |-> TRUE, totalCreditsIssued |-> 0,
                          metadataURI |-> metadataURI]
                    ELSE projects[i]]
            /\ issuerProjects' =
                 [issuerProjects EXCEPT ![caller] = Append(@, nextProjectId)]
            /\ issuers' = [issuers EXCEPT ![caller] = CountProject(@)]
            /\ totalProjects' = totalProjects + 1
            /\ UNCHANGED <<isRegisteredIssuer, totalVerifiedProjects, roles,
                           ledgerVars, mktVars, ethBalance, now, nftVars, frameVars,
                           histVars>>
       ELSE Revert

\* Mutant: the "Already verified" check is missing.
VerifyProjectOk_Again(caller, projectId) ==
    /\ HasRole("VERIFIER_ROLE", caller)
    /\ projectId < nextProjectId

\* onlyRole(VERIFIER_ROLE) and the two require of verifyProject
\* (lines 140-141).
VerifyProjectOk(caller, projectId) ==
    /\ HasRole("VERIFIER_ROLE", caller)
    /\ projectId < nextProjectId
    /\ ~ProjectAt(projectId).isVerified

VerifyProject(caller, projectId) ==
    /\ RegCanCall
    /\ IF VerifyProjectOk(caller, projectId)
       THEN /\ Counted
            /\ projects' = [projects EXCEPT ![projectId].isVerified = TRUE]
            /\ totalVerifiedProjects' = totalVerifiedProjects + 1
            /\ UNCHANGED <<issuers, issuerProjects, isRegisteredIssuer,
                           nextProjectId, totalProjects, roles, ledgerVars,
                           mktVars, ethBalance, now, nftVars, frameVars, histVars>>
       ELSE Revert

\* onlyRole(ADMIN_ROLE) and the two require of recordCreditsIssued
\* (lines 156-157).
RecordCreditsOk(caller, projectId) ==
    /\ HasRole("ADMIN_ROLE", caller)
    /\ projectId < nextProjectId
    /\ ProjectAt(projectId).isActive

RecordCreditsIssued(caller, projectId, amount) ==
    /\ RegCanCall
    /\ IF RecordCreditsOk(caller, projectId)
       THEN /\ Counted
            /\ projects' =
                 [projects EXCEPT ![projectId].totalCreditsIssued = @ + amount]
            /\ UNCHANGED <<issuers, issuerProjects, isRegisteredIssuer,
                           nextProjectId, totalProjects,
                           totalVerifiedProjects, roles, ledgerVars, mktVars,
                           ethBalance, now, nftVars, frameVars, histVars>>
       ELSE Revert

\* Mutant: the function is gated by the Verifier capability.
DeactivateOk_Verifier(caller, projectId) ==
    /\ HasRole("VERIFIER_ROLE", caller)
    /\ projectId < nextProjectId

\* onlyRole(ADMIN_ROLE) and the require of deactivateProject (line 171).
DeactivateOk(caller, projectId) ==
    /\ HasRole("ADMIN_ROLE", caller)
    /\ projectId < nextProjectId

DeactivateProject(caller, projectId) ==
    /\ RegCanCall
    /\ IF DeactivateOk(caller, projectId)
       THEN /\ Counted
            /\ projects' = [projects EXCEPT ![projectId].isActive = FALSE]
            /\ UNCHANGED <<issuers, issuerProjects, isRegisteredIssuer,
                           nextProjectId, totalProjects,
                           totalVerifiedProjects, roles, ledgerVars, mktVars,
                           ethBalance, now, nftVars, frameVars, histVars>>
       ELSE Revert

RegistryNext ==
    \/ \E c \in Users, n \in IssuerNames : RegisterIssuer(c, n)
    \/ \E c \in Users, a \in Users : VerifyIssuer(c, a)
    \/ \E c \in Users, n \in RegProjectNames, t \in RegProjectTypes,
          l \in RegLocations, m \in MetadataURIs :
          RegisterProject(c, n, t, l, m)
    \/ \E c \in Users, id \in 0..nextProjectId : VerifyProject(c, id)
    \/ \E c \in Users, id \in 0..nextProjectId, a \in IssuedAmounts :
          RecordCreditsIssued(c, id, a)
    \/ \E c \in Users, id \in 0..nextProjectId : DeactivateProject(c, id)
    \/ Tick

RegistrySpec == Init /\ [][RegistryNext]_vars

\* Projects whose verified flag is set.
VerifiedProjects == {id \in DOMAIN projects : projects[id].isVerified}

\* C26: once a project is deactivated, no step changes any field of its
\* record (active flag, verified flag and totalCreditsIssued included), and
\* the count of verified projects does not move on its account.
C26_DeactivationTerminal ==
    [][\A id \in DOMAIN projects :
         ~projects[id].isActive =>
            /\ id \in DOMAIN projects'
            /\ projects'[id] = projects[id]
            /\ id \notin VerifiedProjects =>
                  totalVerifiedProjects' = totalVerifiedProjects]_vars

\* C27: verifyProject passes its checks only for an id below the next
\* project id whose project is not verified yet; totalVerifiedProjects is
\* the number of projects whose verified flag is set; the flag never goes
\* back to false, and the count moves only by one, together with the flag
\* of one project.
C27_VerifiedCount ==
    /\ [](\A c \in Users, id \in 0..(nextProjectId + 1) :
            VerifyProjectOk(c, id) =>
               /\ id < nextProjectId
               /\ ~ProjectAt(id).isVerified)
    /\ [](totalVerifiedProjects = Cardinality(VerifiedProjects))
    /\ [][\A id \in DOMAIN projects :
            projects[id].isVerified =>
               id \in DOMAIN projects' /\ projects'[id].isVerified]_vars
    /\ [][totalVerifiedProjects' # totalVerifiedProjects =>
            /\ totalVerifiedProjects' = totalVerifiedProjects + 1
            /\ \E id \in DOMAIN projects :
                  /\ ~projects[id].isVerified
                  /\ projects' = [projects EXCEPT ![id].isVerified = TRUE]]_vars

\* Of two projects the first is verified: a second verification of it
\* fails, a verification of the other passes.
C27_Witness ==
    /\ nextProjectId = 2
    /\ totalVerifiedProjects = 1
    /\ projects[0].isVerified
    /\ ~projects[1].isVerified
    /\ ~VerifyProjectOk(Owner, 0)
    /\ VerifyProjectOk(Owner, 1)
    /\ ~VerifyProjectOk(Owner, 2)

\* C28: verifyIssuer by a Verifier passes its checks exactly for the
\* addresses that registered; on an issuer already verified it leaves the
\* record as it is; a verified flag is set only on a registered issuer, by a
\* step that changes nothing else of the Registry, and is never cleared.
C28_VerifyIssuerIdempotent ==
    /\ [](\A c \in Users, a \in Users :
            /\ VerifyIssuerOk(c, a) => HasRole("VERIFIER_ROLE", c)
            /\ HasRole("VERIFIER_ROLE", c) =>
                  (VerifyIssuerOk(c, a) <=> isRegisteredIssuer[a]))
    /\ [](\A a \in Users :
            /\ IssuerVerified(issuers[a]).isVerified
            /\ IssuerVerified(IssuerVerified(issuers[a])) =
                  IssuerVerified(issuers[a])
            /\ issuers[a].isVerified =>
                  /\ isRegisteredIssuer[a]
                  /\ IssuerVerified(issuers[a]) = issuers[a])
    /\ [][\A a \in Users :
            /\ issuers[a].isVerified => issuers'[a].isVerified
            /\ (~issuers[a].isVerified /\ issuers'[a].isVerified) =>
                  /\ isRegisteredIssuer[a]
                  /\ issuers' = [issuers EXCEPT ![a].isVerified = TRUE]
                  /\ UNCHANGED <<projects, issuerProjects,
                                 isRegisteredIssuer, nextProjectId,
                                 totalProjects, totalVerifiedProjects>>]_vars

\* alice registered and was verified twice in a row (three calls, nothing
\* else has happened), the owner never registered.
C28_Witness ==
    /\ calls = 3
    /\ now = 0
    /\ nextProjectId = 0
    /\ isRegisteredIssuer["alice"]
    /\ issuers["alice"].isVerified
    /\ ~isRegisteredIssuer[Owner]
    /\ ~VerifyIssuerOk(Owner, Owner)
    /\ VerifyIssuerOk(Owner, "alice")

\* C29: registerIssuer passes its checks only for an address not registered
\* yet and a non-empty name; the step that registers an address gives it a
\* record that is unverified, active, with zero projects; an address without
\* a registration has the empty record; and once an address is registered
\* its name, address and registration time never change, its verified flag
\* is not cleared and its project count does not go down.
C29_RegisterIssuerOnce ==
    /\ [](\A c \in Users, n \in IssuerNames :
            RegisterIssuerOk(c, n) => ~isRegisteredIssuer[c] /\ n # "")
    /\ [](\A c \in Users : ~isRegisteredIssuer[c] => issuers[c] = ZeroIssuer)
    /\ [][\A c \in Users :
            /\ (~isRegisteredIssuer[c] /\ isRegisteredIssuer'[c]) =>
                  /\ issuers'[c].name # ""
                  /\ issuers'[c] =
                        [name |-> issuers'[c].name, issuerAddress |-> c,
                         isVerified |-> FALSE, isActive |-> TRUE,
                         registeredAt |-> now, projectsRegistered |-> 0]
                  /\ \A o \in Users \ {c} : issuers'[o] = issuers[o]
                  /\ UNCHANGED <<projects, issuerProjects, nextProjectId,
                                 totalProjects, totalVerifiedProjects>>
            /\ isRegisteredIssuer[c] =>
                  /\ isRegisteredIssuer'[c]
                  /\ issuers'[c].name = issuers[c].name
                  /\ issuers'[c].issuerAddress = issuers[c].issuerAddress
                  /\ issuers'[c].registeredAt = issuers[c].registeredAt
                  /\ issuers'[c].isActive = issuers[c].isActive
                  /\ issuers[c].isVerified => issuers'[c].isVerified
                  /\ issuers'[c].projectsRegistered >=
                        issuers[c].projectsRegistered]_vars

\* alice registered, was verified and registered a project at a later time;
\* another registration by her fails.
C29_Witness ==
    /\ isRegisteredIssuer["alice"]
    /\ issuers["alice"].isVerified
    /\ issuers["alice"].projectsRegistered = 1
    /\ issuers["alice"].registeredAt < now
    /\ isRegisteredIssuer[Owner]
    /\ \A n \in IssuerNames : ~RegisterIssuerOk("alice", n)

\* C30: registerProject passes its checks only for a registered, active
\* issuer with a non-empty name, and never for an address without a
\* registration; the step that registers a project gives it the id
\* nextProjectId had, the caller as owner, unverified, active, with no
\* credits issued, and leaves the older projects alone; in every other step
\* the next project id, the set of projects, the issuers' project lists and
\* totalProjects stay.
C30_RegisterProjectChecked ==
    /\ [](\A c \in Users, n \in RegProjectNames :
            /\ RegisterProjectOk(c, n) =>
                  /\ isRegisteredIssuer[c]
                  /\ issuers[c].isActive
                  /\ n # ""
            /\ ~isRegisteredIssuer[c] => ~RegisterProjectOk(c, n))
    /\ [](DOMAIN projects = 0..(nextProjectId - 1))
    /\ [][nextProjectId' # nextProjectId =>
            LET new == projects'[nextProjectId] IN
            /\ nextProjectId' = nextProjectId + 1
            /\ new.owner \in Users
            /\ isRegisteredIssuer[new.owner]
            /\ issuers[new.owner].isActive
            /\ new.name # ""
            /\ ~new.isVerified
            /\ new.isActive
            /\ new.totalCreditsIssued = 0
            /\ new.registeredAt = now
            /\ \A i \in DOMAIN projects : projects'[i] = projects[i]
            /\ issuerProjects' =
                  [issuerProjects EXCEPT ![new.owner] =
                     Append(@, nextProjectId)]
            /\ totalProjects' = totalProjects + 1]_vars
    /\ [][nextProjectId' = nextProjectId =>
            /\ DOMAIN projects' = DOMAIN projects
            /\ issuerProjects' = issuerProjects
            /\ totalProjects' = totalProjects]_vars

\* Two issuers, each the owner of one project.
C30_Witness ==
    /\ nextProjectId = 2
    /\ projects[0].owner # projects[1].owner
    /\ issuerProjects[projects[0].owner] = <<0>>
    /\ issuerProjects[projects[1].owner] = <<1>>
    /\ totalProjects = 2

\* ------------------------------------------------- capabilities (roles)
\* AccessControl, which the Registry inherits: every role's admin role is
\* DEFAULT_ADMIN_ROLE, held by the deployer.
RoleNames      == {"DEFAULT_ADMIN_ROLE", "ADMIN_ROLE", "VERIFIER_ROLE"}
GrantableRoles == {"ADMIN_ROLE", "VERIFIER_ROLE"}

\* AccessControl.getRoleAdmin: no role of the Registry has its admin set.
GetRoleAdmin(role) == "DEFAULT_ADMIN_ROLE"

\* AccessControl.grantRole: onlyRole(getRoleAdmin(role)); granting a role
\* the account holds already succeeds and changes nothing.
GrantRole(caller, role, account) ==
    /\ RegCanCall
    /\ IF HasRole(GetRoleAdmin(role), caller)
       THEN /\ Counted
            /\ roles' = [roles EXCEPT ![role] = @ \cup {account}]
            /\ UNCHANGED <<projects, issuers, issuerProjects,
                           isRegisteredIssuer, nextProjectId, totalProjects,
                           totalVerifiedProjects, ledgerVars, mktVars,
                           ethBalance, now, nftVars, frameVars, histVars>>
       ELSE Revert

\* AccessControl.revokeRole: onlyRole(getRoleAdmin(role)).
RevokeRole(caller, role, account) ==
    /\ RegCanCall
    /\ IF HasRole(GetRoleAdmin(role), caller)
       THEN /\ Counted
            /\ roles' = [roles EXCEPT ![role] = @ \ {account}]
            /\ UNCHANGED <<projects, issuers, issuerProjects,
                           isRegisteredIssuer, nextProjectId, totalProjects,
                           totalVerifiedProjects, ledgerVars, mktVars,
                           ethBalance, now, nftVars, frameVars, histVars>>
       ELSE Revert

\* AccessControl.renounceRole: the confirmation must be the caller.
RenounceRole(caller, role, callerConfirmation) ==
    /\ RegCanCall
    /\ IF callerConfirmation = caller
       THEN /\ Counted
            /\ roles' = [roles EXCEPT ![role] = @ \ {caller}]
            /\ UNCHANGED <<projects, issuers, issuerProjects,
                           isRegisteredIssuer, nextProjectId, totalProjects,
                           totalVerifiedProjects, ledgerVars, mktVars,
                           ethBalance, now, nftVars, frameVars, histVars>>
       ELSE Revert

\* The Registry with its capabilities granted, revoked and renounced.
RolesNext ==
    \/ \E c \in Users, r \in GrantableRoles, a \in Users : GrantRole(c, r, a)
    \/ \E c \in Users, r \in GrantableRoles, a \in Users : RevokeRole(c, r, a)
    \/ \E c \in Users, r \in GrantableRoles, a \in Users :
          RenounceRole(c, r, a)
    \/ \E c \in Users : RegisterIssuer(c, "Acme")
    \/ \E c \in Users, a \in Users : VerifyIssuer(c, a)
    \/ \E c \in Users, n \in RegProjectNames, t \in RegProjectTypes,
          l \in RegLocations, m \in MetadataURIs :
          RegisterProject(c, n, t, l, m)
    \/ \E c \in Users, id \in 0..nextProjectId : VerifyProject(c, id)
    \/ \E c \in Users, id \in 0..nextProjectId, a \in IssuedAmounts :
          RecordCreditsIssued(c, id, a)
    \/ \E c \in Users, id \in 0..nextProjectId : DeactivateProject(c, id)

RolesSpec == Init /\ [][RolesNext]_vars

\* C31: verifyIssuer and verifyProject pass their checks only for a caller
\* holding Verifier, recordCreditsIssued and deactivateProject only for a
\* caller holding Admin, and the other capability (or an issuer's
\* registration) neither helps nor is needed: a Verifier passes the checks
\* of verifyProject whenever the project exists unverified, an Admin those
\* of deactivateProject whenever the project exists.  While nobody holds
\* Verifier no verified flag changes, while nobody holds Admin no active flag
\* is cleared and no issued total moves.  The deployer holds every
\* capability at first, and a step that gives a capability to a principal
\* takes it from nobody.
C31_CapabilitiesIndependent ==
    /\ roles = [r \in RoleNames |-> {Owner}]
    /\ [](\A c \in Users, id \in 0..nextProjectId :
            /\ \A a \in Users :
                  VerifyIssuerOk(c, a) => HasRole("VERIFIER_ROLE", c)
            /\ VerifyProjectOk(c, id) => HasRole("VERIFIER_ROLE", c)
            /\ RecordCreditsOk(c, id) => HasRole("ADMIN_ROLE", c)
            /\ DeactivateOk(c, id) => HasRole("ADMIN_ROLE", c)
            /\ HasRole("VERIFIER_ROLE", c) =>
                  (VerifyProjectOk(c, id) <=>
                     (id < nextProjectId /\ ~ProjectAt(id).isVerified))
            /\ HasRole("ADMIN_ROLE", c) =>
                  (DeactivateOk(c, id) <=> id < nextProjectId))
    /\ [][roles["VERIFIER_ROLE"] = {} =>
            /\ \A a \in Users : issuers'[a].isVerified = issuers[a].isVerified
            /\ \A id \in DOMAIN projects :
                  projects'[id].isVerified = projects[id].isVerified
            /\ totalVerifiedProjects' = totalVerifiedProjects]_vars
    /\ [][roles["ADMIN_ROLE"] = {} =>
            \A id \in DOMAIN projects :
               /\ projects'[id].isActive = projects[id].isActive
               /\ projects'[id].totalCreditsIssued =
                     projects[id].totalCreditsIssued]_vars
    /\ [][\A r \in RoleNames :
            roles'[r] \ roles[r] # {} =>
               \A o \in RoleNames : roles[o] \subseteq roles'[o]]_vars

\* Two principals hold Verifier at once; alice, a registered issuer, holds
\* Verifier only and the owner holds Admin: alice can verify project 0 but
\* can neither deactivate it nor record credits for it.
C31_Witness ==
    /\ roles["VERIFIER_ROLE"] = Users
    /\ roles["ADMIN_ROLE"] = {Owner}
    /\ isRegisteredIssuer["alice"]
    /\ nextProjectId = 1
    /\ VerifyProjectOk("alice", 0)
    /\ ~DeactivateOk("alice", 0)
    /\ ~RecordCreditsOk("alice", 0)
    /\ DeactivateOk(Owner, 0)

\* --------------------------------------------------------- CarbonCreditNFT
NftMinters      == {Owner}
Recipients      == Users \cup {Zero}
CertCredits     == {0, MaxAmount}
CertCreditIds   == {0, 1}
CertNames       == {"Solar"}
CertificateURIs == {"ipfs://cert"}

ZeroCertificate == [creditsRetired |-> 0, creditId |-> 0, projectName |-> "",
                    retiredBy |-> Zero, retiredAt |-> 0, certificateURI |-> ""]

\* certificates[id] of the mapping: the zero struct where nothing was stored.
CertificateAt(id) ==
    IF id \in DOMAIN certificates THEN certificates[id] ELSE ZeroCertificate

\* Mutant: the "Credits must be greater than 0" check is missing.
MintCertOk_ZeroCredits(caller, to, creditsRetired, accepted) ==
    /\ caller \in NftMinters
    /\ to # Zero
    /\ accepted

\* onlyRole(MINTER_ROLE), the two require of mintCertificate (lines 54-55)
\* and the acceptance check of _safeMint (line 70): the recipient's code, if
\* it has any, accepts the token or makes the call revert.
MintCertOk(caller, to, creditsRetired, accepted) ==
    /\ caller \in NftMinters
    /\ to # Zero
    /\ creditsRetired > 0
    /\ accepted

\* Lines 59-66: the record stored for a new token id.
NewCertificate(to, creditsRetired, creditId, projectName, certificateURI) ==
    [creditsRetired |-> creditsRetired, creditId |-> creditId,
     projectName |-> projectName, retiredBy |-> to, retiredAt |-> now,
     certificateURI |-> certificateURI]

\* The recipient's code runs inside _safeMint after every write but the
\* token URI's, and nothing after it can fail: what that code calls
\* meanwhile has the effect of the same calls made afterwards, so the mint
\* is one step.
MintCertificate(caller, to, creditsRetired, creditId, projectName, certificateURI, accepted) ==
    /\ CanCall(caller)
    /\ IF MintCertOk(caller, to, creditsRetired, accepted)
       THEN /\ Counted
            /\ nextTokenId' = nextTokenId + 1
            /\ certificates' =
                 [i \in 0..nextTokenId |->
                    IF i = nextTokenId
                    THEN NewCertificate(to, creditsRetired, creditId,
                                        projectName, certificateURI)
                    ELSE certificates[i]]
            /\ userCertificates' =
                 [userCertificates EXCEPT ![to] = Append(@, nextTokenId)]
            /\ tokenOwner' =
                 [i \in 0..nextTokenId |->
                    IF i = nextTokenId THEN to ELSE tokenOwner[i]]
            /\ tokenURIs' =
                 [i \in 0..nextTokenId |->
                    IF i = nextTokenId THEN certificateURI ELSE tokenURIs[i]]
            /\ UNCHANGED <<ledgerVars, mktVars, ethBalance, now, frameVars,
                           histVars, regVars>>
       ELSE Revert

\* ERC721.transferFrom by the token's owner, inherited.
TransferCertificate(caller, to, tokenId) ==
    /\ CanCall(caller)
    /\ IF tokenId < nextTokenId /\ tokenOwner[tokenId] = caller /\ to # Zero
       THEN /\ Counted
            /\ tokenOwner' = [tokenOwner EXCEPT ![tokenId] = to]
            /\ UNCHANGED <<certificates, userCertificates, nextTokenId,
                           tokenURIs, ledgerVars, mktVars, ethBalance, now,
                           frameVars, histVars, regVars>>
       ELSE Revert

\* The view getCertificate (lines 81-88): it fails or returns the record.
GetCertificate(tokenId) ==
    IF tokenId < nextTokenId
    THEN [ok |-> TRUE, value |-> CertificateAt(tokenId)]
    ELSE [ok |-> FALSE, value |-> ZeroCertificate]

\* The certificates next to a Ledger whose credits are minted and retired.
NftNext ==
    \/ \E c \in Users, to \in Recipients, n \in CertCredits,
          id \in CertCreditIds, p \in CertNames, u \in CertificateURIs,
          ok \in BOOLEAN : MintCertificate(c, to, n, id, p, u, ok)
    \/ \E c \in Users, to \in Recipients, id \in 0..nextTokenId :
          TransferCertificate(c, to, id)
    \/ \E c \in Users, t \in ProjectTypes, l \in Locations :
          MintCredits(c, c, MaxAmount, "Solar", t, l, now)
    \/ \E c \in Users, id \in 0..nextCreditId : RetireCredits(c, 1, id)
    \/ Tick

NftSpec == Init /\ [][NftNext]_vars

\* C32: mintCertificate passes its checks only for a Minter with a non-null
\* recipient and creditsRetired > 0, and for such a call whatever the Ledger
\* holds; token ids are dense, the step of a mint gives the new record the
\* id nextTokenId had and appends that id to the recipient's list; a stored
\* certificate never changes; getCertificate fails exactly for the ids not
\* below the next token id.
C32_CertificateMinting ==
    /\ [](\A c \in Users, to \in Recipients, n \in CertCredits,
             ok \in BOOLEAN :
            /\ MintCertOk(c, to, n, ok) =>
                  c \in NftMinters /\ to # Zero /\ n > 0
            /\ (c \in NftMinters /\ to # Zero /\ n > 0) =>
                  MintCertOk(c, to, n, TRUE))
    /\ [](/\ DOMAIN certificates = 0..(nextTokenId - 1)
          /\ nextTokenId =
               SumOver([u \in Users |-> Len(userCertificates[u])], Users)
          /\ \A id \in 0..(nextTokenId + 1) :
                /\ GetCertificate(id).ok <=> id < nextTokenId
                /\ GetCertificate(id).ok =>
                      /\ GetCertificate(id).value = certificates[id]
                      /\ GetCertificate(id).value.creditsRetired > 0
                      /\ GetCertificate(id).value.retiredBy \in Users)
    /\ [][nextTokenId' # nextTokenId =>
            LET new == certificates'[nextTokenId] IN
            /\ nextTokenId' = nextTokenId + 1
            /\ new.retiredAt = now
            /\ userCertificates' =
                  [userCertificates EXCEPT ![new.retiredBy] =
                     Append(@, nextTokenId)]
            /\ UNCHANGED ledgerVars]_vars
    /\ [][/\ \A id \in DOMAIN certificates :
               id \in DOMAIN certificates' /\ certificates'[id] = certificates[id]
          /\ nextTokenId' = nextTokenId =>
               /\ DOMAIN certificates' = DOMAIN certificates
               /\ userCertificates' = userCertificates]_vars

\* Two certificates, the first for a credit id the Ledger has retired, the
\* second for a credit id the Ledger never issued; the first has since been
\* transferred and its record is as minted.
C32_Witness ==
    /\ nextTokenId = 2
    /\ nextCreditId = 1
    /\ creditMetadata[0].isRetired
    /\ certificates[0].creditId = 0
    /\ certificates[1].creditId = 1
    /\ tokenOwner[0] # certificates[0].retiredBy
    /\ userCertificates[certificates[0].retiredBy][1] = 0
    /\ ~GetCertificate(2).ok

\* ------------------------------------------------ the Marketplace at large
\* The machine started in the state reached by: the owner mints MarketStock
\* to alice under "Solar", alice approves the Marketplace for as much.  Four
\* more calls are explored from there: the Marketplace's functions, and
\* retireCredits.
MarketStock     == MaxAmount + 1
MarketCreditIds == {0, 1}

MarketInit ==
    /\ balances = [x \in Addr |-> IF x = "alice" THEN MarketStock ELSE 0]
    /\ allowance = [u \in Users |-> IF u = "alice" THEN MarketStock ELSE 0]
    /\ creditMetadata =
         [i \in {0} |-> [projectName |-> "Solar",
                         projectType |-> "Renewable Energy",
                         location |-> "India", vintage |-> 0,
                         timestamp |-> 0, isRetired |-> FALSE,
                         retiredBy |-> Zero, retiredAt |-> 0]]
    /\ userRetiredCredits = [u \in Users |-> <<>>]
    /\ projectCredits = [n \in LedgerProjectNames |->
                           IF n = "Solar" THEN MarketStock ELSE 0]
    /\ nextCreditId = 1
    /\ totalRetired = 0
    /\ tokenEntered = FALSE
    /\ listings = <<>>
    /\ userListings = [u \in Users |-> <<>>]
    /\ userTrades = [u \in Users |-> <<>>]
    /\ nextListingId = 0
    /\ platformFee = InitialFee
    /\ totalVolume = 0
    /\ totalTrades = 0
    /\ mktEntered = FALSE
    /\ ethBalance = [x \in Addr |-> IF x = Mkt THEN 0 ELSE InitEth]
    /\ now = 0
    /\ pc = "idle"
    /\ frame = NoFrame
    /\ saved = NoSave
    /\ outcome = "none"
    /\ totalMinted = MarketStock
    /\ unsolicited = 0
    /\ feesDue = 0
    /\ mintLog = <<[amount |-> MarketStock, projectName |-> "Solar",
                    projectType |-> "Renewable Energy",
                    location |-> "India", vintage |-> 0]>>
    /\ calls = MaxCalls - 4
    /\ RegistryDeployed
    /\ NftDeployed

MarketNext ==
    \/ \E c \in Users, a \in 0..MaxAmount, p \in Prices,
          id \in MarketCreditIds, n \in ListingNames :
          CreateListing(c, a, p, id, n)
    \/ \E c \in Users, id \in 0..nextListingId, a \in 0..MaxAmount :
          \E v \in Payments(id, a) : BuyCredits(c, id, a, v)
    \/ SellerReturns
    \/ SellerRejects
    \/ BuyerReturns
    \/ BuyerRejects
    \/ \E c \in Users, id \in 0..nextListingId : CancelListing(c, id)
    \/ \E c \in Users, id \in 0..nextListingId, p \in Prices :
          UpdateListingPrice(c, id, p)
    \/ \E c \in Users, a \in 0..1, id \in 0..nextCreditId :
          RetireCredits(c, a, id)
    \/ Tick

MarketSpec == MarketInit /\ [][MarketNext]_vars

\* The ids of the active listings.
ActiveIds == {i \in DOMAIN listings : listings[i].isActive}

\* The k-th smallest member of a set of numbers.
Nth(S, k) == CHOOSE i \in S : Cardinality({j \in S : j < i}) = k - 1

\* C33: in every state getActiveListings returns as many entries as there
\* are listings whose active flag is set, and its k-th entry is the record
\* of the k-th smallest active listing id: every active listing once, in
\* ascending id order, and no other.  (The function is a view: it is an
\* expression over the state, not a step.)
C33_ActiveListingsView ==
    /\ Len(GetActiveListings) = Cardinality(ActiveIds)
    /\ DOMAIN GetActiveListings = 1..Cardinality(ActiveIds)
    /\ \A k \in 1..Cardinality(ActiveIds) :
          /\ GetActiveListings[k] = listings[Nth(ActiveIds, k)]
          /\ GetActiveListings[k].isActive

\* Three listings were created; the one in the middle is not active any
\* more and the other two differ.
C33_Witness ==
    /\ nextListingId = 3
    /\ ActiveIds = {0, 2}
    /\ listings[0] # listings[2]
    /\ GetActiveListings = <<listings[0], listings[2]>>

\* C35: every buy that completes, for amount > 0 on a listing priced above
\* zero, has totalPrice > 0; and for every listing the prices of two
\* purchases together are at least the price of one purchase of the two
\* amounts together.
C35_NoFreeCredits ==
    /\ [][Completed =>
            ((/\ frame.amount > 0
              /\ saved.listings[frame.listingId].pricePerCredit > 0)
             => frame.totalPrice > 0)]_vars
    /\ [](\A id \in DOMAIN listings, a \in 1..MaxAmount, b \in 1..MaxAmount :
            a + b <= listings[id].amount =>
               QuoteOf(id, a).totalPrice + QuoteOf(id, b).totalPrice >=
                  QuoteOf(id, a + b).totalPrice)

\* C36: in every reachable state each active listing references a credit id
\* below the next credit id whose credit is not retired.
C36_ListingsReferenceLiveCredits ==
    \A id \in DOMAIN listings :
       listings[id].isActive =>
          /\ listings[id].creditId < nextCreditId
          /\ ~MetadataAt(listings[id].creditId).isRetired

\* C37: in every state every listing id below the next listing id has a
\* record, active exactly when its remaining amount is above zero; ids are
\* dense: the next listing id is the number of listings created so far, and
\* the step of a createListing stores the new record at the id the counter
\* had and appends that id to the seller's list; no step, a buy's revert
\* included, changes a listing's seller, creditId, createdAt or projectName.
C37_ListingRecords ==
    /\ [](/\ DOMAIN listings = 0..(nextListingId - 1)
          /\ nextListingId = ListingsEverCreated
          /\ \A id \in 0..(nextListingId - 1) :
                /\ listings[id].isActive <=> listings[id].amount > 0
                /\ listings[id].amount >= 0
                /\ listings[id].seller \in Users
                /\ Cardinality({i \in 1..Len(userListings[listings[id].seller]) :
                       userListings[listings[id].seller][i] = id}) = 1)
    /\ [][nextListingId' # nextListingId =>
            /\ nextListingId' = nextListingId + 1
            /\ listings'[nextListingId].isActive
            /\ listings'[nextListingId].createdAt = now
            /\ userListings' =
                  [userListings EXCEPT ![listings'[nextListingId].seller] =
                     Append(@, nextListingId)]]_vars
    /\ [][\A id \in DOMAIN listings :
            /\ id \in DOMAIN listings'
            /\ listings'[id].seller = listings[id].seller
            /\ listings'[id].creditId = listings[id].creditId
            /\ listings'[id].createdAt = listings[id].createdAt
            /\ listings'[id].projectName = listings[id].projectName]_vars

\* Two listings of one seller, created at different times for different
\* credit ids: the first sold out, the second active.
C37_Witness ==
    /\ pc = "idle"
    /\ nextListingId = 2
    /\ userListings["alice"] = <<0, 1>>
    /\ ~listings[0].isActive
    /\ listings[0].amount = 0
    /\ totalTrades = 1
    /\ listings[1].isActive
    /\ listings[1].createdAt > listings[0].createdAt
    /\ listings[1].creditId # listings[0].creditId

\* A sequence that begins with another.
IsPrefix(short, long) ==
    /\ Len(short) <= Len(long)
    /\ \A i \in 1..Len(short) : long[i] = short[i]

\* C38: a buy that completes appends one and the same Trade record (its
\* listing, buyer, seller, amount, totalPrice and time) to the buyer's
\* history and to the seller's; no other step changes a history, and every
\* step leaves each history a prefix of what it becomes; whenever no buy is
\* running the histories hold 2 * totalTrades records and totalVolume is the
\* sum of totalPrice over the trades, each counted once (with its buyer).
C38_TradeLogAppendOnly ==
    /\ [][Completed =>
            LET trade == [listingId |-> frame.listingId,
                          buyer |-> frame.buyer, seller |-> frame.seller,
                          amount |-> frame.amount,
                          totalPrice |-> frame.totalPrice,
                          timestamp |-> now] IN
            /\ frame.buyer # frame.seller
            /\ userTrades' =
                  [u \in Users |->
                     IF u \in {frame.buyer, frame.seller}
                     THEN Append(userTrades[u], trade)
                     ELSE userTrades[u]]]_vars
    /\ [][~Completed => userTrades' = userTrades]_vars
    /\ [][\A u \in Users : IsPrefix(userTrades[u], userTrades'[u])]_vars
    /\ [](pc = "idle" =>
            /\ SumOver([u \in Users |-> Len(userTrades[u])], Users) =
                  2 * totalTrades
            /\ totalVolume = SumOver([u \in Users |-> BoughtBy(u)], Users))

\* Two sales of one listing at different times: both parties hold the same
\* two records.
C38_Witness ==
    /\ pc = "idle"
    /\ totalTrades = 2
    /\ Len(userTrades[Owner]) = 2
    /\ userTrades["alice"] = userTrades[Owner]
    /\ userTrades[Owner][1].timestamp < userTrades[Owner][2].timestamp
    /\ totalVolume =
          userTrades[Owner][1].totalPrice + userTrades[Owner][2].totalPrice
    /\ totalVolume > 0

\* How often `id` occurs in the retired list of `u`.
OccurrencesIn(u, id) ==
    Cardinality({i \in 1..Len(userRetiredCredits[u]) :
                   userRetiredCredits[u][i] = id})

\* C39: in every state a credit id is in u's retired list exactly if the
\* credit is retired with retiredBy = u, and then once, and in no other
\* list; the lists hold issued ids only, in the order of retirement; every
\* step leaves each list a prefix of what it becomes (but for the revert of
\* a buy, which undoes the retirements made inside it: they never
\* succeeded).
C39_RetiredListsAgree ==
    /\ [](\A u \in Users :
            /\ \A id \in 0..(nextCreditId - 1) :
                  /\ OccurrencesIn(u, id) > 0 <=>
                        (/\ creditMetadata[id].isRetired
                         /\ creditMetadata[id].retiredBy = u)
                  /\ OccurrencesIn(u, id) <= 1
            /\ \A i \in 1..Len(userRetiredCredits[u]) :
                  /\ userRetiredCredits[u][i] < nextCreditId
                  /\ \A j \in 1..Len(userRetiredCredits[u]) :
                        i < j =>
                           creditMetadata[userRetiredCredits[u][i]].retiredAt <=
                           creditMetadata[userRetiredCredits[u][j]].retiredAt)
    /\ [](\A id \in 0..(nextCreditId - 1) :
            Occurrences(userRetiredCredits, id) =
               IF creditMetadata[id].isRetired THEN 1 ELSE 0)
    /\ [][~Reverted =>
            \A u \in Users :
               IsPrefix(userRetiredCredits[u], userRetiredCredits'[u])]_vars

\* alice retired credit 1 and later credit 0, the owner none: her list is in
\* the order of retirement, not of the ids.
C39_Witness ==
    /\ nextCreditId = 2
    /\ userRetiredCredits["alice"] = <<1, 0>>
    /\ userRetiredCredits[Owner] = <<>>
    /\ creditMetadata[1].retiredAt < creditMetadata[0].retiredAt
    /\ creditMetadata[0].retiredBy = "alice"

\* How often project `id` occurs in the project list of `u`.
ListedUnder(u, id) ==
    Cardinality({i \in 1..Len(issuerProjects[u]) : issuerProjects[u][i] = id})

\* C40: in every state of the Registry totalProjects is the next project
\* id, each issuer's projectsRegistered is the length of its project list,
\* every list is strictly ascending and holds registered ids only, and
\* every project id below the next project id is once in its owner's list
\* and in no other issuer's list.
C40_RegistryCounts ==
    /\ totalProjects = nextProjectId
    /\ \A u \in Users :
          /\ issuers[u].projectsRegistered = Len(issuerProjects[u])
          /\ \A i \in 1..Len(issuerProjects[u]) :
                /\ issuerProjects[u][i] < nextProjectId
                /\ \A j \in 1..Len(issuerProjects[u]) :
                      i < j => issuerProjects[u][i] < issuerProjects[u][j]
    /\ \A id \in 0..(nextProjectId - 1) :
          /\ projects[id].owner \in Users
          /\ \A u \in Users :
                ListedUnder(u, id) = IF u = projects[id].owner THEN 1 ELSE 0

\* Three projects of two issuers, registered in turn.
C40_Witness ==
    /\ nextProjectId = 3
    /\ totalProjects = 3
    /\ issuerProjects["alice"] = <<0, 2>>
    /\ issuerProjects[Owner] = <<1>>
    /\ issuers["alice"].projectsRegistered = 2
    /\ issuers[Owner].projectsRegistered = 1

=============================================================================
